---- MODULE Spec2Model ----
(***************************************************************************)
(* A model of fol-parser: parse(input, syntax) of src/src/index.ts, with   *)
(* the tokenizer (src/src/tokenizer.ts), the two Pratt parsers             *)
(* (src/unnamed/part_002, parser.ts), the semantic analyzer                *)
(* (src/src/semantic-analyzer.ts) and the syntax table                     *)
(* (src/unnamed/part_001, syntax.ts).                                      *)
(*                                                                         *)
(* A JavaScript string is a sequence of one-character strings, so that the *)
(* regular expressions of the code are computed character by character.   *)
(* An STree is Leaf(string) or Node(<<subtrees>>); a Map is a sequence of  *)
(* <<key, value>> pairs and a Set a duplicate-free sequence, both in       *)
(* insertion order, as in JavaScript.                                      *)
(***************************************************************************)
EXTENDS Integers, Sequences, FiniteSets, TLC

VARIABLES
  input,      \* parse's parameter `input`
  syntax,     \* parse's parameter `syntax`
  tokens,     \* the token buffer, shifted destructively by the parsers
  result,     \* index.ts `result`: what parseFormula returned
  processed,  \* index.ts `processed`: what checkAllowedSubs returned
  ret,        \* the value parse returns
  pc,         \* the statement of parse that runs next
  stack,      \* the calls of the parsers that have not returned, innermost first
  returned    \* the ParseResult of the call that ended last

vars == <<input, syntax, tokens, result, processed, ret, pc, stack, returned>>

-----------------------------------------------------------------------------
(* Characters and strings *)

LowerAR == {"a","b","c","d","e","f","g","h","i","j","k","l","m","n","o","p","q","r"}
LowerSZ == {"s","t","u","v","w","x","y","z"}
Lower == LowerAR \cup LowerSZ
Upper == {"A","B","C","D","E","F","G","H","I","J","K","L","M","N","O","P","Q","R",
          "S","T","U","V","W","X","Y","Z"}
Digit == {"0","1","2","3","4","5","6","7","8","9"}

\* /[a-zA-Z]/.test(char) for one character
IsLetter(ch) == ch \in Lower \cup Upper

\* /[a-z]/.test(s): the pattern is not anchored, one lowercase letter anywhere matches
HasLower(s) == \E i \in 1..Len(s) : s[i] \in Lower

\* /^[0-9]+$/ on the characters i..Len(s) of s
AllDigitsFrom(s, i) == i <= Len(s) /\ \A j \in i..Len(s) : s[j] \in Digit

\* /^[a-r](_[0-9]+)?$/ and /^[s-z](_[0-9]+)?$/ share this shape
VarShape(s, letters) ==
  /\ Len(s) >= 1
  /\ s[1] \in letters
  /\ \/ Len(s) = 1
     \/ Len(s) >= 3 /\ s[2] = "_" /\ AllDigitsFrom(s, 3)

-----------------------------------------------------------------------------
(* Trees *)

Leaf(s) == [t |-> "leaf", v |-> s]
Node(kids) == [t |-> "node", k |-> kids]
IsString(tree) == tree.t = "leaf"

isEigenvar(val) == IsString(val) /\ VarShape(val.v, LowerAR)
isRegVar(val) == IsString(val) /\ VarShape(val.v, LowerSZ)
isDigit(val) == Len(val) = 1 /\ val[1] \in Digit

-----------------------------------------------------------------------------
(* Spellings and labels *)

s_neg == <<"n","e","g">>
s_land == <<"l","a","n","d">>
s_lor == <<"l","o","r">>
s_rightarrow == <<"r","i","g","h","t","a","r","r","o","w">>
s_leftrightarrow == <<"l","e","f","t","r","i","g","h","t","a","r","r","o","w">>
s_top == <<"t","o","p">>
s_bot == <<"b","o","t">>
s_exists == <<"e","x","i","s","t","s">>
s_forall == <<"f","o","r","a","l","l">>
s_eq == <<"=">>
s_not == <<"n","o","t">>
s_and == <<"a","n","d">>
s_or == <<"o","r">>
s_implies == <<"i","m","p","l","i","e","s">>
s_iff == <<"i","f","f">>
s_true == <<"t","r","u","e">>
s_false == <<"f","a","l","s","e">>
s_eqLabel == <<"e","q">>
s_phi == <<"p","h","i">>
s_psi == <<"p","s","i">>
s_chi == <<"c","h","i">>
s_metavar == <<"_","m","e","t","a","v","a","r">>
s_left == <<"\\","l","e","f","t">>
s_right == <<"\\","r","i","g","h","t">>

\* the extensions of the test suite's sampleSyntax
s_funcF == <<"f","u","n","c","F">>
s_funcG == <<"f","u","n","c","G">>
s_plus == <<"+">>
s_minus == <<"-">>
s_cdot == <<"c","d","o","t">>
s_predP == <<"p","r","e","d","P">>
s_predQ == <<"p","r","e","d","Q">>
s_plusLabel == <<"p","l","u","s">>
s_minusLabel == <<"m","i","n","u","s">>
s_times == <<"t","i","m","e","s">>

\* caller-defined constructs whose parameters the specifications vary
s_opA == <<"o","p","A">>
s_opB == <<"o","p","B">>
s_star == <<"*">>
s_all == <<"a","l","l">>
s_every == <<"e","v","e","r","y">>

-----------------------------------------------------------------------------
(* The syntax table *)

Connective(style, label, precedence, associativity) ==
  CASE style = "prefix" ->
         [kind |-> "connective", style |-> style, label |-> label,
          precedence |-> precedence]
    [] style = "infix" ->
         [kind |-> "connective", style |-> style, label |-> label,
          precedence |-> precedence, associativity |-> associativity]
    [] style = "nullary" ->
         [kind |-> "connective", style |-> style, label |-> label]
Quantifier(label) == [kind |-> "quantifier", label |-> label]
Predicate(style, label, arity) ==
  [kind |-> "predicate", style |-> style, label |-> label, arity |-> arity]
Function(style, label, arity, precedence) ==
  IF style = "infix"
  THEN [kind |-> "function", style |-> style, label |-> label, arity |-> arity,
        precedence |-> precedence]
  ELSE [kind |-> "function", style |-> style, label |-> label, arity |-> arity]

basicSyntax ==
  (s_neg :> Connective("prefix", s_not, 4, "none")) @@
  (s_land :> Connective("infix", s_and, 3, "left")) @@
  (s_lor :> Connective("infix", s_or, 2, "left")) @@
  (s_rightarrow :> Connective("infix", s_implies, 1, "right")) @@
  (s_leftrightarrow :> Connective("infix", s_iff, 0, "right")) @@
  (s_top :> Connective("nullary", s_true, 0, "none")) @@
  (s_bot :> Connective("nullary", s_false, 0, "none")) @@
  (s_exists :> Quantifier(s_exists)) @@
  (s_forall :> Quantifier(s_forall)) @@
  (s_eq :> Predicate("infix", s_eqLabel, 2))

\* test/parser.test.ts: the table every test parses with (funcH and predR left out)
sampleSyntax ==
  basicSyntax @@
  (s_funcF :> Function("prefix", <<"F">>, 1, 0)) @@
  (s_funcG :> Function("prefix", <<"G">>, 2, 0)) @@
  (s_plus :> Function("infix", s_plusLabel, 2, 1)) @@
  (s_minus :> Function("infix", s_minusLabel, 2, 1)) @@
  (s_cdot :> Function("infix", s_times, 2, 2)) @@
  (s_predP :> Predicate("prefix", <<"P">>, 1)) @@
  (s_predQ :> Predicate("prefix", <<"Q">>, 2))

\* Map.prototype.has / get
Has(map, key) == key \in DOMAIN map

-----------------------------------------------------------------------------
(* tokenizer.ts *)

\* ctrlSeq: string | null is [open |-> FALSE] for null, [open |-> TRUE, s |-> ...] otherwise
CtrlNull == [open |-> FALSE, s |-> <<>>]

\* the token of a control sequence spelled without its backslash
endCtrlSeq_bare(st, syn) ==
  IF ~st.ctrlSeq.open THEN st
  ELSE LET ctrlSeq == st.ctrlSeq.s
           token ==
             IF ctrlSeq \in {s_phi, s_psi, s_chi}
             THEN [kind |-> "metavariable", letter |-> ctrlSeq, value |-> ctrlSeq]
             ELSE [value |-> ctrlSeq] @@
                  (IF Has(syn, ctrlSeq) THEN syn[ctrlSeq] ELSE [kind |-> "unrecognized"])
       IN [tokens |-> Append(st.tokens, token), ctrlSeq |-> CtrlNull]

endCtrlSeq(st, syn) ==
  IF ~st.ctrlSeq.open THEN st
  ELSE LET ctrlSeq == st.ctrlSeq.s
           value == <<"\\">> \o ctrlSeq
           token ==
             IF ctrlSeq \in {s_phi, s_psi, s_chi}
             THEN [kind |-> "metavariable", letter |-> ctrlSeq, value |-> value]
             ELSE [value |-> value] @@
                  (IF Has(syn, ctrlSeq) THEN syn[ctrlSeq] ELSE [kind |-> "unrecognized"])
       IN [tokens |-> Append(st.tokens, token), ctrlSeq |-> CtrlNull]

tokenizeChar(st, char, syn) ==
  IF st.ctrlSeq.open /\ IsLetter(char)
  THEN [st EXCEPT !.ctrlSeq.s = @ \o <<char>>]
  ELSE IF st.ctrlSeq.open /\ st.ctrlSeq.s = <<>>
  THEN endCtrlSeq([st EXCEPT !.ctrlSeq.s = <<char>>], syn)
  ELSE LET st1 == endCtrlSeq(st, syn) IN
       CASE char = "\\" -> [st1 EXCEPT !.ctrlSeq = [open |-> TRUE, s |-> <<>>]]
         [] char = " " -> st1
         [] OTHER ->
              [st1 EXCEPT !.tokens = Append(@,
                 [value |-> <<char>>] @@
                 (IF Has(syn, <<char>>) THEN syn[<<char>>] ELSE [kind |-> "char"]))]

RECURSIVE tokenizeRange(_, _, _, _, _)
\* for (const char of input) over the characters lo..hi. The range is halved and
\* the state after the first half is computed, once, before the second half
\* starts, which keeps the evaluation shallow.
tokenizeRange(st, inp, lo, hi, syn) ==
  IF lo > hi THEN st
  ELSE IF lo = hi THEN tokenizeChar(st, inp[lo], syn)
  ELSE LET mid == (lo + hi) \div 2 IN
       CHOOSE right \in {tokenizeRange(left, inp, mid + 1, hi, syn) :
                            left \in {tokenizeRange(st, inp, lo, mid, syn)}} : TRUE

tokenize(inp, syn) ==
  endCtrlSeq(tokenizeRange([tokens |-> <<>>, ctrlSeq |-> CtrlNull], inp, 1, Len(inp), syn),
             syn).tokens

-----------------------------------------------------------------------------
(* parser.ts (src/unnamed/part_002) *)

\* Every parser shifts tokens off the one shared buffer: a parser's value here is
\* its ParseResult r together with the buffer toks it leaves behind.
PR(r, toks) == [r |-> r, toks |-> toks]

\* const x = v; followed by F, the code after it, which reads x
With(v, F(_)) == F(v)

succeedWith(val) == [kind |-> "success", tree |-> val, allowedSubs |-> <<>>]
succeedWithSubs(val, allowedSubs) ==
  [kind |-> "success", tree |-> val, allowedSubs |-> allowedSubs]
failWith(val) == [kind |-> "error"] @@ val

\* the right binding power parseFormula gives a quantifier's scope
Infinity == 1000000

\* tokens.at(0)?.value === v
NextIs(toks, v) == toks # <<>> /\ Head(toks).value = v

bpConnInfixRight(base) == <<base + 1, base + 0>>
\* the two binding powers the wrong way round
bpConnInfixLeft_swapped(base) == <<base + 3, base + 2>>
bpConnInfixLeft(base) == <<base + 2, base + 3>>
\* the binding powers taken from the precedence itself, not from four times it
bpConn_unscaled(op) ==
  IF op.style = "nullary" THEN <<-1, -1>>
  ELSE LET base == op.precedence IN
       CASE op.style = "prefix" -> <<-1, base>>
         [] op.style = "infix" ->
              IF op.associativity = "left"
              THEN bpConnInfixLeft(base)
              ELSE bpConnInfixRight(base)
bpConn(op) ==
  IF op.style = "nullary" THEN <<-1, -1>>
  ELSE LET base == 4 * op.precedence IN
       CASE op.style = "prefix" -> <<-1, base>>
         [] op.style = "infix" ->
              IF op.associativity = "left"
              THEN bpConnInfixLeft(base)
              ELSE bpConnInfixRight(base)

bpFunc(op) ==
  IF op.style # "infix" THEN <<-1, -1>>
  ELSE LET base == 2 * op.precedence IN <<base + 0, base + 1>>

expect(toks, value) ==
  IF toks = <<>> THEN PR(failWith([msg |-> "UnexpectedEnd", expected |-> value]), toks)
  ELSE LET next == Head(toks) IN
       IF next.value # value
       THEN PR(failWith([msg |-> "BadToken", expected |-> value, actual |-> next.value]),
               Tail(toks))
       ELSE PR(succeedWith(Leaf(next.value)), Tail(toks))

delimUpNext(toks, delim) ==
  \/ NextIs(toks, delim)
  \/ NextIs(toks, s_left) /\ Len(toks) >= 2 /\ toks[2].value = delim

digitTok(toks) ==
  toks # <<>> /\ Head(toks).kind = "char" /\ isDigit(Head(toks).value)

RECURSIVE parseIntegerLoop(_, _)
parseIntegerLoop(res, toks) ==
  IF digitTok(toks) THEN parseIntegerLoop(res \o Head(toks).value, Tail(toks))
  ELSE PR(res, toks)

parseInteger(toks) ==
  With(parseIntegerLoop(<<>>, toks), LAMBDA loop :
    IF loop.r = <<>>
    THEN IF loop.toks = <<>> THEN PR(failWith([msg |-> "UnexpectedEnd"]), loop.toks)
         ELSE PR(failWith([msg |-> "BadToken", actual |-> loop.toks[1].value]), loop.toks)
    ELSE PR(succeedWith(Leaf(loop.r)), loop.toks))

\* parseGroup is only ever called with parseInteger
parseGroup(toks) ==
  With(expect(toks, <<"{">>), LAMBDA lBrace :
    IF lBrace.r.kind = "error" THEN lBrace
    ELSE With(parseInteger(lBrace.toks), LAMBDA res :
           IF res.r.kind = "error" THEN res
           ELSE With(expect(res.toks, <<"}">>), LAMBDA rBrace :
                  IF rBrace.r.kind = "error" THEN rBrace
                  ELSE PR(res.r, rBrace.toks))))

\* a run of digits taken after the underscore without braces
parseSubscript_greedy(toks) ==
  With(expect(toks, <<"_">>), LAMBDA underscore :
    IF underscore.r.kind = "error" THEN underscore
    ELSE IF underscore.toks = <<>>
    THEN PR(failWith([msg |-> "UnexpectedEnd"]), underscore.toks)
    ELSE IF Head(underscore.toks).kind = "char" /\ isDigit(Head(underscore.toks).value)
    THEN parseInteger(underscore.toks)
    ELSE parseGroup(underscore.toks))

parseSubscript(toks) ==
  With(expect(toks, <<"_">>), LAMBDA underscore :
    IF underscore.r.kind = "error" THEN underscore
    ELSE IF underscore.toks = <<>>
    THEN PR(failWith([msg |-> "UnexpectedEnd"]), underscore.toks)
    ELSE IF Head(underscore.toks).kind = "char" /\ isDigit(Head(underscore.toks).value)
    THEN PR(succeedWith(Leaf(Head(underscore.toks).value)), Tail(underscore.toks))
    ELSE parseGroup(underscore.toks))

\* the test of line 184 on the token's spelling
variableSpelling(value) == HasLower(value)

parseVariable(toks) ==
  IF toks = <<>> THEN PR(failWith([msg |-> "UnexpectedEnd"]), toks)
  ELSE IF ~variableSpelling(Head(toks).value)
  THEN PR(failWith([msg |-> "BadToken", actual |-> Head(toks).value]), Tail(toks))
  ELSE IF NextIs(Tail(toks), <<"_">>)
  THEN With(parseSubscript(Tail(toks)), LAMBDA subscript :
         IF subscript.r.kind = "error" THEN subscript
         ELSE PR(succeedWith(Leaf(Head(toks).value \o <<"_">> \o subscript.r.tree.v)),
                 subscript.toks))
  ELSE PR(succeedWith(Leaf(Head(toks).value)), Tail(toks))

\* the buffer left as the failed parser left it
tryParseRestore_kept(oldTokens, res) == res

\* Run a parser but don't consume input on failure
tryParseRestore(oldTokens, res) ==
  IF res.r.kind = "error" THEN PR(res.r, oldTokens) ELSE res

RECURSIVE parseFormula(_, _), parseFormulaLoop(_, _, _), parseBasicFormula(_),
          parseInfixPred(_), parseTerm(_, _), parseTermLoop(_, _, _),
          parseBasicTerm(_), parseDelimiter(_, _, _, _), parseList(_, _),
          parseListLoop(_, _, _), runParser(_, _)

\* the callbacks the code hands to parseDelimiter, parseList and tryParse
runParser(parser, toks) ==
  CASE parser = "parseFormula" -> parseFormula(toks, 0)
    [] parser = "parseTerm" -> parseTerm(toks, 0)
    [] parser = "parseBasicTerm" -> parseBasicTerm(toks)
    [] parser = "parseVariable" -> parseVariable(toks)
    [] parser = "listOfVariable" -> parseList(toks, "parseVariable")
    [] parser = "listOfTerm" -> parseList(toks, "parseTerm")
    [] parser = "listOfBasicTerm" -> parseList(toks, "parseBasicTerm")
    [] parser = "parensFormula" -> parseDelimiter(toks, <<"(">>, <<")">>, "parseFormula")

parseParens(toks, parser) == parseDelimiter(toks, <<"(">>, <<")">>, parser)

\* the while (true) loop of parseFormula
parseFormulaLoop(tree, toks, minBp) ==
  IF toks = <<>> THEN PR(succeedWith(tree), toks)
  ELSE IF Head(toks).kind # "connective" \/ Head(toks).style # "infix"
  THEN PR(succeedWith(tree), toks)
  ELSE IF bpConn(Head(toks))[1] < minBp THEN PR(succeedWith(tree), toks)
  ELSE With(parseFormula(Tail(toks), bpConn(Head(toks))[2]), LAMBDA rhs :
         IF rhs.r.kind = "error" THEN rhs
         ELSE parseFormulaLoop(Node(<<Leaf(Head(toks).label), tree, rhs.r.tree>>),
                               rhs.toks, minBp))

\* the right binding power of the formula a quantifier binds
quantifierReach == Infinity

parseFormula(toks, minBp) ==
  IF toks = <<>> THEN PR(failWith([msg |-> "UnexpectedEnd"]), toks)
  ELSE IF Head(toks).kind = "connective" /\ Head(toks).style = "prefix"
  THEN With(parseFormula(Tail(toks), bpConn(Head(toks))[2]), LAMBDA rhs :
         IF rhs.r.kind = "error" THEN rhs
         ELSE parseFormulaLoop(Node(<<Leaf(Head(toks).label), rhs.r.tree>>),
                               rhs.toks, minBp))
  ELSE IF Head(toks).kind = "quantifier"
  THEN With(parseVariable(Tail(toks)), LAMBDA boundTo :
         IF boundTo.r.kind = "error" THEN boundTo
         ELSE IF isEigenvar(boundTo.r.tree)
         THEN PR(failWith([msg |-> "BoundEigenvar", variable |-> boundTo.r.tree.v]),
                 boundTo.toks)
         ELSE With(parseFormula(boundTo.toks, quantifierReach), LAMBDA rhs :
                IF rhs.r.kind = "error" THEN rhs
                ELSE parseFormulaLoop(
                       Node(<<Leaf(Head(toks).label), boundTo.r.tree, rhs.r.tree>>),
                       rhs.toks, minBp)))
  ELSE With(parseBasicFormula(toks), LAMBDA res :
         IF res.r.kind = "error" THEN res
         ELSE parseFormulaLoop(res.r.tree, res.toks, minBp))

\* Run a parser but don't consume input on failure
tryParse(toks, parser) == tryParseRestore(toks, runParser(parser, toks))

\* lines 88-100: the metavariable first, its subscript if one follows, and its
\* list of variables if a parenthesis follows
parseMetavariable(metavar, toks) ==
  IF delimUpNext(toks, <<"(">>)
  THEN With(parseParens(toks, "listOfVariable"), LAMBDA withVars :
         IF withVars.r.kind = "error" THEN withVars
         ELSE PR(succeedWith(Node(<<Leaf(s_metavar), Leaf(metavar)>>
                                  \o withVars.r.tree.k)),
                 withVars.toks))
  ELSE PR(succeedWith(Node(<<Leaf(s_metavar), Leaf(metavar)>>)), toks)

parseBasicFormula(toks) ==
  IF toks = <<>> THEN PR(failWith([msg |-> "UnexpectedEnd"]), toks)
  ELSE IF Head(toks).kind = "metavariable"
  THEN IF NextIs(Tail(toks), <<"_">>)
       THEN With(parseSubscript(Tail(toks)), LAMBDA subscript :
              IF subscript.r.kind = "error" THEN subscript
              ELSE parseMetavariable(
                     Head(toks).letter \o <<"_">> \o subscript.r.tree.v,
                     subscript.toks))
       ELSE parseMetavariable(Head(toks).letter, Tail(toks))
  ELSE IF Head(toks).kind = "connective" /\ Head(toks).style = "nullary"
  THEN PR(succeedWith(Leaf(Head(toks).label)), Tail(toks))
  ELSE IF Head(toks).kind = "predicate" /\ Head(toks).style = "prefix"
  THEN With(parseParens(Tail(toks), "listOfTerm"), LAMBDA args :
         IF args.r.kind = "error" THEN args
         ELSE IF Len(args.r.tree.k) # Head(toks).arity
         THEN PR(failWith([msg |-> "WrongNumArgs", symbol |-> Head(toks).value,
                           expected |-> Head(toks).arity,
                           actual |-> Len(args.r.tree.k)]),
                 args.toks)
         ELSE PR(succeedWith(Node(<<Leaf(Head(toks).label)>> \o args.r.tree.k)),
                 args.toks))
  ELSE IF delimUpNext(toks, <<"(">>)
  THEN \* Parentheses can be around either a formula or term, so backtrack on failure
       With(tryParse(toks, "parensFormula"), LAMBDA res :
         IF res.r.kind = "success" THEN res
         ELSE parseInfixPred(res.toks))
  ELSE parseInfixPred(toks)

parseInfixPred(toks) ==
  With(parseTerm(toks, 0), LAMBDA lhs :
    IF lhs.r.kind = "error" THEN lhs
    ELSE IF lhs.toks = <<>> THEN PR(failWith([msg |-> "UnexpectedEnd"]), lhs.toks)
    ELSE IF Head(lhs.toks).kind # "predicate" \/ Head(lhs.toks).style # "infix"
    THEN PR(failWith([msg |-> "BadToken", actual |-> Head(lhs.toks).value]),
            Tail(lhs.toks))
    ELSE With(parseTerm(Tail(lhs.toks), 0), LAMBDA rhs :
           IF rhs.r.kind = "error" THEN rhs
           ELSE PR(succeedWith(Node(<<Leaf(Head(lhs.toks).label), lhs.r.tree,
                                      rhs.r.tree>>)),
                   rhs.toks)))

\* the while (true) loop of parseTerm
parseTermLoop(tree, toks, minBp) ==
  IF toks = <<>> THEN PR(succeedWith(tree), toks)
  ELSE IF Head(toks).kind # "function" \/ Head(toks).style # "infix"
  THEN PR(succeedWith(tree), toks)
  ELSE IF bpFunc(Head(toks))[1] < minBp THEN PR(succeedWith(tree), toks)
  ELSE With(parseTerm(Tail(toks), bpFunc(Head(toks))[2]), LAMBDA rhs :
         IF rhs.r.kind = "error" THEN rhs
         ELSE parseTermLoop(Node(<<Leaf(Head(toks).label), tree, rhs.r.tree>>),
                            rhs.toks, minBp))

parseTerm(toks, minBp) ==
  IF toks = <<>> THEN PR(failWith([msg |-> "UnexpectedEnd"]), toks)
  ELSE With(parseBasicTerm(toks), LAMBDA res :
         IF res.r.kind = "error" THEN res
         ELSE parseTermLoop(res.r.tree, res.toks, minBp))

\* the arguments of a prefix function read as whole terms
parseBasicTerm_termArgs(toks) ==
  IF toks = <<>> THEN PR(failWith([msg |-> "UnexpectedEnd"]), toks)
  ELSE IF Head(toks).kind = "function" /\ Head(toks).style = "prefix"
  THEN With(parseParens(Tail(toks), "listOfTerm"), LAMBDA args :
         IF args.r.kind = "error" THEN args
         ELSE IF Len(args.r.tree.k) # Head(toks).arity
         THEN PR(failWith([msg |-> "WrongNumArgs", symbol |-> Head(toks).value,
                           expected |-> Head(toks).arity,
                           actual |-> Len(args.r.tree.k)]),
                 args.toks)
         ELSE PR(succeedWith(Node(<<Leaf(Head(toks).label)>> \o args.r.tree.k)),
                 args.toks))
  ELSE IF delimUpNext(toks, <<"(">>) THEN parseParens(toks, "parseTerm")
  ELSE parseVariable(toks)

parseBasicTerm(toks) ==
  IF toks = <<>> THEN PR(failWith([msg |-> "UnexpectedEnd"]), toks)
  ELSE IF Head(toks).kind = "function" /\ Head(toks).style = "prefix"
  THEN With(parseParens(Tail(toks), "listOfBasicTerm"), LAMBDA args :
         IF args.r.kind = "error" THEN args
         ELSE IF Len(args.r.tree.k) # Head(toks).arity
         THEN PR(failWith([msg |-> "WrongNumArgs", symbol |-> Head(toks).value,
                           expected |-> Head(toks).arity,
                           actual |-> Len(args.r.tree.k)]),
                 args.toks)
         ELSE PR(succeedWith(Node(<<Leaf(Head(toks).label)>> \o args.r.tree.k)),
                 args.toks))
  ELSE IF delimUpNext(toks, <<"(">>) THEN parseParens(toks, "parseTerm")
  ELSE parseVariable(toks)

parseDelimiter(toks, lDelim, rDelim, parser) ==
  IF toks = <<>> THEN PR(failWith([msg |-> "UnexpectedEnd", expected |-> lDelim]), toks)
  ELSE IF Head(toks).value = s_left
  THEN With(expect(Tail(toks), lDelim), LAMBDA second :
         IF second.r.kind = "error" THEN second
         ELSE With(runParser(parser, second.toks), LAMBDA res :
                IF res.r.kind = "error" THEN res
                ELSE With(expect(res.toks, s_right), LAMBDA right :
                       IF right.r.kind = "error" THEN right
                       ELSE With(expect(right.toks, rDelim), LAMBDA end :
                              IF end.r.kind = "error" THEN end
                              ELSE PR(res.r, end.toks)))))
  ELSE IF Head(toks).value = lDelim
  THEN With(runParser(parser, Tail(toks)), LAMBDA res :
         IF res.r.kind = "error" THEN res
         ELSE With(expect(res.toks, rDelim), LAMBDA next :
                IF next.r.kind = "error" THEN next
                ELSE PR(res.r, next.toks)))
  ELSE PR(failWith([msg |-> "BadToken", expected |-> lDelim,
                    actual |-> Head(toks).value]),
          Tail(toks))

\* the while loop of parseList
parseListLoop(res, toks, parser) ==
  IF NextIs(toks, <<",">>)
  THEN With(runParser(parser, Tail(toks)), LAMBDA next :
         IF next.r.kind = "error" THEN next
         ELSE parseListLoop(Append(res, next.r.tree), next.toks, parser))
  ELSE PR(succeedWith(Node(res)), toks)

parseList(toks, parser) ==
  With(runParser(parser, toks), LAMBDA first :
    IF first.r.kind = "error" THEN first
    ELSE parseListLoop(<<first.r.tree>>, first.toks, parser))

-----------------------------------------------------------------------------
(* JavaScript Set and Map, in insertion order *)

SetHas(set, x) == \E i \in 1..Len(set) : set[i] = x
SetAdd(set, x) == IF SetHas(set, x) THEN set ELSE Append(set, x)
SetDelete(set, x) == LET keep(y) == y # x IN SelectSeq(set, keep)

RECURSIVE SetFrom(_, _)
\* new Set(array), added to set
SetFrom(set, array) ==
  IF array = <<>> THEN set ELSE SetFrom(SetAdd(set, Head(array)), Tail(array))

SetUnion(a, b) == SetFrom(a, b)
SetIntersection(a, b) ==
  LET inB(x) == SetHas(b, x)
      inA(x) == SetHas(a, x)
  IN IF Len(a) <= Len(b) THEN SelectSeq(a, inB) ELSE SelectSeq(b, inA)
SetSymmetricDifference(a, b) ==
  LET notInB(x) == ~SetHas(b, x)
      notInA(x) == ~SetHas(a, x)
  IN SelectSeq(a, notInB) \o SelectSeq(b, notInA)

MapHas(map, key) == \E i \in 1..Len(map) : map[i][1] = key
MapGet(map, key) == map[CHOOSE i \in 1..Len(map) : map[i][1] = key][2]
MapSet(map, key, val) ==
  IF MapHas(map, key)
  THEN [i \in 1..Len(map) |-> IF map[i][1] = key THEN <<key, val>> ELSE map[i]]
  ELSE Append(map, <<key, val>>)

RECURSIVE MapFrom(_, _)
\* the entries alone, the map they are added to dropped
MapFrom_entriesOnly(map, entries) == entries
\* new Map([...map, ...entries])
MapFrom(map, entries) ==
  IF entries = <<>> THEN map
  ELSE MapFrom(MapSet(map, Head(entries)[1], Head(entries)[2]), Tail(entries))

-----------------------------------------------------------------------------
(* semantic-analyzer.ts *)

\* syntax.get(op) for the head of a tree node: the table is keyed by spelling
symbolOf(op, syn) ==
  IF IsString(op) /\ Has(syn, op.v) THEN syn[op.v] ELSE [kind |-> "undefined"]

RECURSIVE checkFreeVariables(_, _), checkFreeVariablesArgs(_, _, _)
checkFreeVariables(tree, syn) ==
  IF IsString(tree) THEN (IF isRegVar(tree) THEN <<tree.v>> ELSE <<>>)
  ELSE IF tree.k = <<>> THEN <<>>
  ELSE LET op == Head(tree.k)
           args == Tail(tree.k)
           symbol == symbolOf(op, syn)
       IN IF symbol.kind = "quantifier"
          THEN LET variable == args[1]
                   scope == args[2]
               IN SetDelete(checkFreeVariables(scope, syn), variable.v)
          ELSE checkFreeVariablesArgs(<<>>, args, syn)

\* args.reduce((acc, cur) => acc.union(checkFreeVariables(cur, syntax)), new Set())
checkFreeVariablesArgs(acc, args, syn) ==
  IF args = <<>> THEN acc
  ELSE checkFreeVariablesArgs(SetUnion(acc, checkFreeVariables(Head(args), syn)),
                              Tail(args), syn)

RECURSIVE findInconsistency(_, _)
\* a.entries().find(...): <<>> for undefined, <<entry>> for the entry found
\* the two declarations compared as the lists they were written as
findInconsistency_listwise(a, b) ==
  IF a = <<>> THEN <<>>
  ELSE LET key == Head(a)[1]
           val == Head(a)[2]
       IN IF MapHas(b, key) /\ val # MapGet(b, key)
          THEN <<Head(a)>>
          ELSE findInconsistency(Tail(a), b)
\* a metavariable without declared variables taken as not declared at all
findInconsistency_undeclared(a, b) ==
  IF a = <<>> THEN <<>>
  ELSE LET key == Head(a)[1]
           val == Head(a)[2]
       IN IF /\ MapHas(b, key)
             /\ val # <<>> /\ MapGet(b, key) # <<>>
             /\ Len(SetSymmetricDifference(val, MapGet(b, key))) > 0
          THEN <<Head(a)>>
          ELSE findInconsistency(Tail(a), b)
findInconsistency(a, b) ==
  IF a = <<>> THEN <<>>
  ELSE LET key == Head(a)[1]
           val == Head(a)[2]
       IN IF MapHas(b, key) /\ Len(SetSymmetricDifference(val, MapGet(b, key))) > 0
          THEN <<Head(a)>>
          ELSE findInconsistency(Tail(a), b)

\* the strings of an array of string trees
StringsOf(trees) == [i \in 1..Len(trees) |-> trees[i].v]

\* const x = v; with v computed, once, before F, the code after it, reads x
Const(v, F(_)) == CHOOSE out \in {F(x) : x \in {v}} : TRUE

RECURSIVE checkAllowedSubs(_), checkAllowedSubsArgs(_, _)
checkAllowedSubs(tree) ==
  IF IsString(tree) THEN succeedWith(tree)
  ELSE LET op == Head(tree.k)
           args == Tail(tree.k)
       IN IF IsString(op) /\ op.v = s_metavar
          THEN LET metavar == args[1].v
                   freeVars == StringsOf(Tail(args))
               IN succeedWithSubs(Leaf(metavar), <<<<metavar, SetFrom(<<>>, freeVars)>>>>)
          ELSE Const(checkAllowedSubsArgs(succeedWith(Node(<<>>)), args), LAMBDA newArgs :
                 IF newArgs.kind = "error" THEN newArgs
                 ELSE succeedWithSubs(Node(<<op>> \o newArgs.tree.k),
                                      newArgs.allowedSubs))

\* results.reduce(..., succeedWith([])) over args.map(checkAllowedSubs)
checkAllowedSubsArgs(acc, args) ==
  IF args = <<>> THEN acc
  ELSE IF acc.kind = "error" THEN acc
  ELSE Const(checkAllowedSubs(Head(args)), LAMBDA cur :
         IF cur.kind = "error" THEN cur
         ELSE LET inconsistency == findInconsistency(acc.allowedSubs, cur.allowedSubs) IN
              IF inconsistency # <<>>
              THEN failWith([msg |-> "InconsistentAllowedSubs",
                             metavar |-> inconsistency[1][1]])
              ELSE Const(succeedWithSubs(Node(Append(acc.tree.k, cur.tree)),
                                         MapFrom(acc.allowedSubs, cur.allowedSubs)),
                         LAMBDA merged : checkAllowedSubsArgs(merged, Tail(args))))

RECURSIVE checkDoubleBindings(_, _), checkDoubleBindingsArgs(_, _, _)
checkDoubleBindings(tree, syn) ==
  IF IsString(tree) THEN [err |-> FALSE, bound |-> <<>>]
  ELSE IF tree.k = <<>> THEN [err |-> FALSE, bound |-> <<>>]
  ELSE LET op == Head(tree.k)
           args == Tail(tree.k)
           symbol == symbolOf(op, syn)
       IN IF symbol.kind = "quantifier"
          THEN LET variable == args[1].v
                   res == checkDoubleBindings(args[2], syn)
               IN IF res.err THEN res
                  ELSE IF SetHas(res.bound, variable)
                  THEN [err |-> TRUE, msg |-> "DoubleBound", variable |-> variable]
                  ELSE [err |-> FALSE, bound |-> SetAdd(res.bound, variable)]
          ELSE checkDoubleBindingsArgs([err |-> FALSE, bound |-> <<>>], args, syn)

checkDoubleBindingsArgs(acc, args, syn) ==
  IF args = <<>> THEN acc
  ELSE IF acc.err THEN acc
  ELSE LET res == checkDoubleBindings(Head(args), syn) IN
       IF res.err THEN res
       ELSE LET shared == SetIntersection(acc.bound, res.bound) IN
            IF shared # <<>>
            THEN [err |-> TRUE, msg |-> "DoubleBound", variable |-> shared[1]]
            ELSE checkDoubleBindingsArgs(
                   [err |-> FALSE, bound |-> SetUnion(acc.bound, res.bound)],
                   Tail(args), syn)

\* the first of frees alone looked at
eigenvarsOf_firstOnly(frees) ==
  IF frees # <<>> /\ isEigenvar(Leaf(frees[1])) THEN <<frees[1]>> ELSE <<>>
\* the eigenvariables among frees, in order
eigenvarsOf(frees) == LET eigen(x) == isEigenvar(Leaf(x)) IN SelectSeq(frees, eigen)

RECURSIVE checkEigenvars(_)
\* <<>> for null, <<error>> for a ParseError
checkEigenvars(allowedSubs) ==
  IF allowedSubs = <<>> THEN <<>>
  ELSE LET metavariable == Head(allowedSubs)[1]
           eigen == eigenvarsOf(Head(allowedSubs)[2])
       IN IF eigen # <<>>
          THEN <<[msg |-> "EigenvarDeclaredFree", variable |-> eigen[1],
                  metavariable |-> metavariable]>>
          ELSE checkEigenvars(Tail(allowedSubs))

-----------------------------------------------------------------------------
(* index.ts: parse(input, syntax), one action per statement *)

None == [kind |-> "none"]

\* line 12
Tokenize ==
  /\ pc = "tokenize"
  /\ tokens' = tokenize(input, syntax)
  /\ pc' = "blank"
  /\ UNCHANGED <<input, syntax, result, processed, ret, stack, returned>>

\* line 13
CheckBlank ==
  /\ pc = "blank"
  /\ IF Len(input) = 0
     THEN ret' = failWith([msg |-> "BlankExpression"]) /\ pc' = "done"
     ELSE ret' = ret /\ pc' = "parse"
  /\ UNCHANGED <<input, syntax, tokens, result, processed, stack, returned>>

\* lines 14-15
ParseFormula ==
  /\ pc = "parse"
  /\ LET p == parseFormula(tokens, 0) IN
     /\ result' = p.r
     /\ tokens' = p.toks
     /\ IF p.r.kind = "error"
        THEN ret' = p.r /\ pc' = "done"
        ELSE ret' = ret /\ pc' = "leftover"
  /\ UNCHANGED <<input, syntax, processed, stack, returned>>

\* the semantic checks entered without a look at the tokens left
CheckLeftover_skipped ==
  /\ pc = "leftover"
  /\ ret' = ret /\ pc' = "free"
  /\ UNCHANGED <<input, syntax, tokens, result, processed, stack, returned>>

\* line 16
CheckLeftover ==
  /\ pc = "leftover"
  /\ IF Len(tokens) > 0
     THEN ret' = failWith([msg |-> "BadToken", actual |-> tokens[1].value]) /\ pc' = "done"
     ELSE ret' = ret /\ pc' = "free"
  /\ UNCHANGED <<input, syntax, tokens, result, processed, stack, returned>>

\* lines 19-20
CheckFree ==
  /\ pc = "free"
  /\ LET free == checkFreeVariables(result.tree, syntax) IN
     IF free # <<>>
     THEN ret' = failWith([msg |-> "FreeVar", variable |-> free[1]]) /\ pc' = "done"
     ELSE ret' = ret /\ pc' = "subs"
  /\ UNCHANGED <<input, syntax, tokens, result, processed, stack, returned>>

\* lines 21-22
CheckSubs ==
  /\ pc = "subs"
  /\ processed' = checkAllowedSubs(result.tree)
  /\ IF processed'.kind = "error"
     THEN ret' = processed' /\ pc' = "done"
     ELSE ret' = ret /\ pc' = "eigen"
  /\ UNCHANGED <<input, syntax, tokens, result, stack, returned>>

\* lines 23-25
CheckEigen ==
  /\ pc = "eigen"
  /\ LET err == checkEigenvars(processed.allowedSubs) IN
     ret' = IF err # <<>> THEN failWith(err[1]) ELSE processed
  /\ pc' = "done"
  /\ UNCHANGED <<input, syntax, tokens, result, processed, stack, returned>>

Next ==
  \/ Tokenize
  \/ CheckBlank
  \/ ParseFormula
  \/ CheckLeftover
  \/ CheckFree
  \/ CheckSubs
  \/ CheckEigen

-----------------------------------------------------------------------------
(* parser.ts call by call: parseFormula run as the calls and returns it is   *)
(* made of.  A frame of the stack is one call that has not outcome: its     *)
(* function fn, the point at it has reached (at = "call" before its first    *)
(* statement, otherwise the call whose value it waits for) and its locals.   *)

Frame(fn, at, locals) == [fn |-> fn, at |-> at] @@ locals

\* the parser's state after one of its steps: the calls open, the buffer,
\* and the value just outcome (None while a call is being entered)
Machine(frames, toks, outcome) == [stack |-> frames, toks |-> toks, returned |-> outcome]

\* parser(tokens) for the callbacks of runParser
callOf(parser) ==
  CASE parser = "parseFormula" -> Frame("parseFormula", "call", [minBp |-> 0])
    [] parser = "parseTerm" -> Frame("parseTerm", "call", [minBp |-> 0])
    [] parser = "parseBasicTerm" -> Frame("parseBasicTerm", "call", <<>>)
    [] parser = "parseVariable" -> Frame("parseVariable", "call", <<>>)
    [] parser = "listOfVariable" -> Frame("parseList", "call", [parser |-> "parseVariable"])
    [] parser = "listOfTerm" -> Frame("parseList", "call", [parser |-> "parseTerm"])
    [] parser = "listOfBasicTerm" -> Frame("parseList", "call", [parser |-> "parseBasicTerm"])
    [] parser = "parensFormula" ->
         Frame("parseDelimiter", "call",
               [lDelim |-> <<"(">>, rDelim |-> <<")">>, parser |-> "parseFormula"])

\* parseParens(parser)(tokens)
callParens(parser) ==
  Frame("parseDelimiter", "call",
        [lDelim |-> <<"(">>, rDelim |-> <<")">>, parser |-> parser])

\* the step the parser is about to take belongs to function fn
Running(fn) == pc = "parsing" /\ stack # <<>> /\ Head(stack).fn = fn

\* one step of the parser and the rest of parse's state with it
Becomes(m) ==
  /\ stack' = m.stack
  /\ tokens' = m.toks
  /\ returned' = m.returned
  /\ UNCHANGED <<input, syntax, result, processed, ret, pc>>

\* lines 69-81, one turn of the while (true) loop of parseFormula
formulaLoopStep(minBp, tree, rest, toks) ==
  IF toks = <<>> THEN Machine(rest, toks, succeedWith(tree))
  ELSE IF Head(toks).kind # "connective" \/ Head(toks).style # "infix"
  THEN Machine(rest, toks, succeedWith(tree))
  ELSE IF bpConn(Head(toks))[1] < minBp THEN Machine(rest, toks, succeedWith(tree))
  ELSE Machine(<<Frame("parseFormula", "call", [minBp |-> bpConn(Head(toks))[2]]),
                 Frame("parseFormula", "loopRhs",
                       [minBp |-> minBp, tree |-> tree, first |-> Head(toks)])>>
               \o rest,
               Tail(toks), None)

\* lines 41-82
StepParseFormula ==
  /\ Running("parseFormula")
  /\ LET f == Head(stack)
         rest == Tail(stack)
     IN Becomes(
       IF f.at = "call"
       THEN IF tokens = <<>>
            THEN Machine(rest, tokens, failWith([msg |-> "UnexpectedEnd"]))
            ELSE IF Head(tokens).kind = "connective" /\ Head(tokens).style = "prefix"
            THEN Machine(<<Frame("parseFormula", "call",
                                 [minBp |-> bpConn(Head(tokens))[2]]),
                           Frame("parseFormula", "prefixRhs",
                                 [minBp |-> f.minBp, first |-> Head(tokens)])>>
                         \o rest,
                         Tail(tokens), None)
            ELSE IF Head(tokens).kind = "quantifier"
            THEN Machine(<<Frame("parseVariable", "call", <<>>),
                           Frame("parseFormula", "boundTo",
                                 [minBp |-> f.minBp, first |-> Head(tokens)])>>
                         \o rest,
                         Tail(tokens), None)
            ELSE Machine(<<Frame("parseBasicFormula", "call", <<>>),
                           Frame("parseFormula", "basic", [minBp |-> f.minBp])>>
                         \o rest,
                         tokens, None)
       ELSE IF returned.kind = "error" THEN Machine(rest, tokens, returned)
       ELSE IF f.at = "prefixRhs"
       THEN formulaLoopStep(f.minBp, Node(<<Leaf(f.first.label), returned.tree>>),
                            rest, tokens)
       ELSE IF f.at = "boundTo"
       THEN IF isEigenvar(returned.tree)
            THEN Machine(rest, tokens,
                         failWith([msg |-> "BoundEigenvar", variable |-> returned.tree.v]))
            ELSE Machine(<<Frame("parseFormula", "call", [minBp |-> quantifierReach]),
                           Frame("parseFormula", "quantRhs",
                                 [minBp |-> f.minBp, first |-> f.first,
                                  boundTo |-> returned.tree])>>
                         \o rest,
                         tokens, None)
       ELSE IF f.at = "quantRhs"
       THEN formulaLoopStep(f.minBp,
                            Node(<<Leaf(f.first.label), f.boundTo, returned.tree>>),
                            rest, tokens)
       ELSE IF f.at = "basic"
       THEN formulaLoopStep(f.minBp, returned.tree, rest, tokens)
       ELSE formulaLoopStep(f.minBp, Node(<<Leaf(f.first.label), f.tree, returned.tree>>),
                            rest, tokens))

\* lines 95-100: the metavariable's list of variables if a parenthesis follows
metavariableStep(metavar, rest, toks) ==
  IF delimUpNext(toks, <<"(">>)
  THEN Machine(<<callParens("listOfVariable"),
                 Frame("parseBasicFormula", "withVars", [metavar |-> metavar])>>
               \o rest,
               toks, None)
  ELSE Machine(rest, toks, succeedWith(Node(<<Leaf(s_metavar), Leaf(metavar)>>)))

\* lines 84-120
StepParseBasicFormula ==
  /\ Running("parseBasicFormula")
  /\ LET f == Head(stack)
         rest == Tail(stack)
         infixPred == <<Frame("parseInfixPred", "call", <<>>),
                        Frame("parseBasicFormula", "tail", <<>>)>> \o rest
     IN Becomes(
       IF f.at = "call"
       THEN IF tokens = <<>>
            THEN Machine(rest, tokens, failWith([msg |-> "UnexpectedEnd"]))
            ELSE IF Head(tokens).kind = "metavariable"
            THEN IF NextIs(Tail(tokens), <<"_">>)
                 THEN LET subscript == parseSubscript(Tail(tokens)) IN
                      IF subscript.r.kind = "error"
                      THEN Machine(rest, subscript.toks, subscript.r)
                      ELSE metavariableStep(
                             Head(tokens).letter \o <<"_">> \o subscript.r.tree.v,
                             rest, subscript.toks)
                 ELSE metavariableStep(Head(tokens).letter, rest, Tail(tokens))
            ELSE IF Head(tokens).kind = "connective" /\ Head(tokens).style = "nullary"
            THEN Machine(rest, Tail(tokens), succeedWith(Leaf(Head(tokens).label)))
            ELSE IF Head(tokens).kind = "predicate" /\ Head(tokens).style = "prefix"
            THEN Machine(<<callParens("listOfTerm"),
                           Frame("parseBasicFormula", "args", [first |-> Head(tokens)])>>
                         \o rest,
                         Tail(tokens), None)
            ELSE IF delimUpNext(tokens, <<"(">>)
            THEN Machine(<<Frame("tryParse", "call", [parser |-> "parensFormula"]),
                           Frame("parseBasicFormula", "tried", <<>>)>>
                         \o rest,
                         tokens, None)
            ELSE Machine(infixPred, tokens, None)
       ELSE IF f.at = "withVars"
       THEN IF returned.kind = "error" THEN Machine(rest, tokens, returned)
            ELSE Machine(rest, tokens,
                         succeedWith(Node(<<Leaf(s_metavar), Leaf(f.metavar)>>
                                          \o returned.tree.k)))
       ELSE IF f.at = "args"
       THEN IF returned.kind = "error" THEN Machine(rest, tokens, returned)
            ELSE IF Len(returned.tree.k) # f.first.arity
            THEN Machine(rest, tokens,
                         failWith([msg |-> "WrongNumArgs", symbol |-> f.first.value,
                                   expected |-> f.first.arity,
                                   actual |-> Len(returned.tree.k)]))
            ELSE Machine(rest, tokens,
                         succeedWith(Node(<<Leaf(f.first.label)>> \o returned.tree.k)))
       ELSE IF f.at = "tried"
       THEN IF returned.kind = "success" THEN Machine(rest, tokens, returned)
            ELSE Machine(infixPred, tokens, None)
       ELSE Machine(rest, tokens, returned))

\* lines 122-133
StepParseInfixPred ==
  /\ Running("parseInfixPred")
  /\ LET f == Head(stack)
         rest == Tail(stack)
     IN Becomes(
       IF f.at = "call"
       THEN Machine(<<Frame("parseTerm", "call", [minBp |-> 0]),
                      Frame("parseInfixPred", "lhs", <<>>)>>
                    \o rest,
                    tokens, None)
       ELSE IF returned.kind = "error" THEN Machine(rest, tokens, returned)
       ELSE IF f.at = "lhs"
       THEN IF tokens = <<>>
            THEN Machine(rest, tokens, failWith([msg |-> "UnexpectedEnd"]))
            ELSE IF Head(tokens).kind # "predicate" \/ Head(tokens).style # "infix"
            THEN Machine(rest, Tail(tokens),
                         failWith([msg |-> "BadToken", actual |-> Head(tokens).value]))
            ELSE Machine(<<Frame("parseTerm", "call", [minBp |-> 0]),
                           Frame("parseInfixPred", "rhs",
                                 [first |-> Head(tokens), tree |-> returned.tree])>>
                         \o rest,
                         Tail(tokens), None)
       ELSE Machine(rest, tokens,
                    succeedWith(Node(<<Leaf(f.first.label), f.tree, returned.tree>>))))

\* lines 152-163, one turn of the while (true) loop of parseTerm
termLoopStep(minBp, tree, rest, toks) ==
  IF toks = <<>> THEN Machine(rest, toks, succeedWith(tree))
  ELSE IF Head(toks).kind # "function" \/ Head(toks).style # "infix"
  THEN Machine(rest, toks, succeedWith(tree))
  ELSE IF bpFunc(Head(toks))[1] < minBp THEN Machine(rest, toks, succeedWith(tree))
  ELSE Machine(<<Frame("parseTerm", "call", [minBp |-> bpFunc(Head(toks))[2]]),
                 Frame("parseTerm", "loopRhs",
                       [minBp |-> minBp, tree |-> tree, first |-> Head(toks)])>>
               \o rest,
               Tail(toks), None)

\* lines 143-164
StepParseTerm ==
  /\ Running("parseTerm")
  /\ LET f == Head(stack)
         rest == Tail(stack)
     IN Becomes(
       IF f.at = "call"
       THEN IF tokens = <<>>
            THEN Machine(rest, tokens, failWith([msg |-> "UnexpectedEnd"]))
            ELSE Machine(<<Frame("parseBasicTerm", "call", <<>>),
                           Frame("parseTerm", "basic", [minBp |-> f.minBp])>>
                         \o rest,
                         tokens, None)
       ELSE IF returned.kind = "error" THEN Machine(rest, tokens, returned)
       ELSE IF f.at = "basic"
       THEN termLoopStep(f.minBp, returned.tree, rest, tokens)
       ELSE termLoopStep(f.minBp, Node(<<Leaf(f.first.label), f.tree, returned.tree>>),
                         rest, tokens))

\* lines 166-179
StepParseBasicTerm ==
  /\ Running("parseBasicTerm")
  /\ LET f == Head(stack)
         rest == Tail(stack)
     IN Becomes(
       IF f.at = "call"
       THEN IF tokens = <<>>
            THEN Machine(rest, tokens, failWith([msg |-> "UnexpectedEnd"]))
            ELSE IF Head(tokens).kind = "function" /\ Head(tokens).style = "prefix"
            THEN Machine(<<callParens("listOfBasicTerm"),
                           Frame("parseBasicTerm", "args", [first |-> Head(tokens)])>>
                         \o rest,
                         Tail(tokens), None)
            ELSE IF delimUpNext(tokens, <<"(">>)
            THEN Machine(<<callParens("parseTerm"),
                           Frame("parseBasicTerm", "tail", <<>>)>>
                         \o rest,
                         tokens, None)
            ELSE Machine(<<Frame("parseVariable", "call", <<>>),
                           Frame("parseBasicTerm", "tail", <<>>)>>
                         \o rest,
                         tokens, None)
       ELSE IF f.at = "args"
       THEN IF returned.kind = "error" THEN Machine(rest, tokens, returned)
            ELSE IF Len(returned.tree.k) # f.first.arity
            THEN Machine(rest, tokens,
                         failWith([msg |-> "WrongNumArgs", symbol |-> f.first.value,
                                   expected |-> f.first.arity,
                                   actual |-> Len(returned.tree.k)]))
            ELSE Machine(rest, tokens,
                         succeedWith(Node(<<Leaf(f.first.label)>> \o returned.tree.k)))
       ELSE Machine(rest, tokens, returned))

\* lines 181-191: parseVariable calls no parser back, it runs in one step
StepParseVariable ==
  /\ Running("parseVariable")
  /\ LET res == parseVariable(tokens) IN
     Becomes(Machine(Tail(stack), res.toks, res.r))

\* lines 197-230
StepParseDelimiter ==
  /\ Running("parseDelimiter")
  /\ LET f == Head(stack)
         rest == Tail(stack)
     IN Becomes(
       IF f.at = "call"
       THEN IF tokens = <<>>
            THEN Machine(rest, tokens,
                         failWith([msg |-> "UnexpectedEnd", expected |-> f.lDelim]))
            ELSE IF Head(tokens).value = s_left
            THEN LET second == expect(Tail(tokens), f.lDelim) IN
                 IF second.r.kind = "error" THEN Machine(rest, second.toks, second.r)
                 ELSE Machine(<<callOf(f.parser),
                                Frame("parseDelimiter", "macro", [rDelim |-> f.rDelim])>>
                              \o rest,
                              second.toks, None)
            ELSE IF Head(tokens).value = f.lDelim
            THEN Machine(<<callOf(f.parser),
                           Frame("parseDelimiter", "bare", [rDelim |-> f.rDelim])>>
                         \o rest,
                         Tail(tokens), None)
            ELSE Machine(rest, Tail(tokens),
                         failWith([msg |-> "BadToken", expected |-> f.lDelim,
                                   actual |-> Head(tokens).value]))
       ELSE IF returned.kind = "error" THEN Machine(rest, tokens, returned)
       ELSE IF f.at = "macro"
       THEN LET right == expect(tokens, s_right) IN
            IF right.r.kind = "error" THEN Machine(rest, right.toks, right.r)
            ELSE LET end == expect(right.toks, f.rDelim) IN
                 IF end.r.kind = "error" THEN Machine(rest, end.toks, end.r)
                 ELSE Machine(rest, end.toks, returned)
       ELSE LET next == expect(tokens, f.rDelim) IN
            IF next.r.kind = "error" THEN Machine(rest, next.toks, next.r)
            ELSE Machine(rest, next.toks, returned))

\* lines 279-286, one turn of the while loop of parseList
listLoopStep(parser, res, rest, toks) ==
  IF NextIs(toks, <<",">>)
  THEN Machine(<<callOf(parser),
                 Frame("parseList", "next", [parser |-> parser, res |-> res])>>
               \o rest,
               Tail(toks), None)
  ELSE Machine(rest, toks, succeedWith(Node(res)))

\* lines 274-288
StepParseList ==
  /\ Running("parseList")
  /\ LET f == Head(stack)
         rest == Tail(stack)
     IN Becomes(
       IF f.at = "call"
       THEN Machine(<<callOf(f.parser),
                      Frame("parseList", "first", [parser |-> f.parser])>>
                    \o rest,
                    tokens, None)
       ELSE IF returned.kind = "error" THEN Machine(rest, tokens, returned)
       ELSE IF f.at = "first"
       THEN listLoopStep(f.parser, <<returned.tree>>, rest, tokens)
       ELSE listLoopStep(f.parser, Append(f.res, returned.tree), rest, tokens))

\* the parser run again on the buffer it failed on
backtrack_again(f, rest, toks, outcome) ==
  IF outcome.kind = "error"
  THEN Machine(<<callOf(f.parser), f>> \o rest, f.oldTokens, None)
  ELSE Machine(rest, toks, outcome)

\* lines 294-298: the buffer put back as it was when the parser has failed
backtrack(f, rest, toks, outcome) ==
  LET restored == tryParseRestore(f.oldTokens, PR(outcome, toks)) IN
  Machine(rest, restored.toks, restored.r)

\* lines 291-300
StepTryParse ==
  /\ Running("tryParse")
  /\ LET f == Head(stack)
         rest == Tail(stack)
     IN Becomes(
       IF f.at = "call"
       THEN Machine(<<callOf(f.parser),
                      Frame("tryParse", "tried",
                            [parser |-> f.parser, oldTokens |-> tokens])>>
                    \o rest,
                    tokens, None)
       ELSE backtrack(f, rest, tokens, returned))

\* index.ts line 14, parseFormula(tokens) called
BeginParse ==
  /\ pc = "parse"
  /\ pc' = "parsing"
  /\ stack' = <<Frame("parseFormula", "call", [minBp |-> 0])>>
  /\ returned' = None
  /\ UNCHANGED <<input, syntax, tokens, result, processed, ret>>

\* index.ts lines 14-15, parseFormula has outcome
EndParse ==
  /\ pc = "parsing"
  /\ stack = <<>>
  /\ result' = returned
  /\ IF returned.kind = "error"
     THEN ret' = returned /\ pc' = "done"
     ELSE ret' = ret /\ pc' = "leftover"
  /\ UNCHANGED <<input, syntax, tokens, processed, stack, returned>>

\* parse with parseFormula run call by call
NextByCalls ==
  \/ Tokenize
  \/ CheckBlank
  \/ BeginParse
  \/ StepParseFormula
  \/ StepParseBasicFormula
  \/ StepParseInfixPred
  \/ StepParseTerm
  \/ StepParseBasicTerm
  \/ StepParseVariable
  \/ StepParseDelimiter
  \/ StepParseList
  \/ StepTryParse
  \/ EndParse
  \/ CheckLeftover
  \/ CheckFree
  \/ CheckSubs
  \/ CheckEigen

\* the state in which parse is called with input inp and table syn
Start(inp, syn) ==
  /\ input = inp
  /\ syntax = syn
  /\ tokens = <<>>
  /\ result = None
  /\ processed = None
  /\ ret = None
  /\ pc = "tokenize"
  /\ stack = <<>>
  /\ returned = None

-----------------------------------------------------------------------------
(* Inputs *)

\* a control word as it is typed, with the space that ends it
Cs(key) == <<"\\">> \o key \o <<" ">>

\* all sequences over set S of the lengths lo..hi
SeqsOf(S, lo, hi) == UNION {[1..n -> S] : n \in lo..hi}

\* words[1] sep words[2] sep ... words[n]
RECURSIVE Join(_, _)
Join(words, sep) ==
  IF Len(words) = 1 THEN words[1]
  ELSE words[1] \o sep \o Join(Tail(words), sep)

\* the largest precedence a caller-defined construct is given
MaxPrec == 3
\* the largest number of operands of a chain
MaxChain == 4

Precedences == 0..MaxPrec
Associativities == {"left", "right"}

s_A == <<"A">>
s_B == <<"B">>
s_starLabel == <<"s","t","a","r">>

\* sampleSyntax with an infix connective \opA and an infix function * of the
\* caller's choosing
AssocTable(p, assoc) ==
  sampleSyntax @@
  (s_opA :> Connective("infix", s_A, p, assoc)) @@
  (s_star :> Function("infix", s_starLabel, 2, p))

InfixConnectiveWords == {Cs(s_land), Cs(s_lor), Cs(s_rightarrow), Cs(s_leftrightarrow),
                         Cs(s_opA)}
InfixFunctionWords == {s_plus, s_minus, Cs(s_cdot), s_star}
FormulaAtomWords == {Cs(s_phi), Cs(s_top)}
TermAtomWords == {<<"a">>, <<"b">>}

\* a L b L c ..., and a f b f c ... = d
AssocInputs ==
  {Join(operands, op) :
     op \in InfixConnectiveWords, operands \in SeqsOf(FormulaAtomWords, 3, MaxChain)}
  \cup
  {Join(operands, op) \o <<"=","d">> :
     op \in InfixFunctionWords, operands \in SeqsOf(TermAtomWords, 3, MaxChain)}

InitAssoc ==
  \E p \in Precedences, assoc \in Associativities, inp \in AssocInputs :
    Start(inp, AssocTable(p, assoc))

SpecAssoc == InitAssoc /\ [][Next]_vars

\* sampleSyntax with two infix connectives \opA and \opB of the caller's choosing
PrecTable(pA, aA, pB, aB) ==
  sampleSyntax @@
  (s_opA :> Connective("infix", s_A, pA, aA)) @@
  (s_opB :> Connective("infix", s_B, pB, aB))

\* a L1 b L2 c, \neg a L b, Q x a L b
PrecInputs ==
  LET ops == InfixConnectiveWords \cup {Cs(s_opB)} IN
  {Cs(s_phi) \o o1 \o Cs(s_psi) \o o2 \o Cs(s_chi) : o1 \in ops, o2 \in ops}
  \cup {Cs(s_neg) \o Cs(s_phi) \o o \o Cs(s_psi) : o \in ops}
  \cup {q \o <<"x">> \o Cs(s_phi) \o o \o Cs(s_psi) :
          q \in {Cs(s_forall), Cs(s_exists)}, o \in ops}

InitPrec ==
  \E pA \in Precedences, aA \in Associativities,
     pB \in Precedences, aB \in Associativities, inp \in PrecInputs :
    Start(inp, PrecTable(pA, aA, pB, aB))

SpecPrec == InitPrec /\ [][Next]_vars

\* a control word followed by a character that ends it
Cw(key) == <<"\\">> \o key

\* the largest number of arguments a symbol is applied to
MaxArgs == 3

\* sym(a, b, ...)
Application(sym, args) == Cw(sym) \o <<"(">> \o Join(args, <<",">>) \o <<")">>

\* a predicate or a function of sampleSyntax applied to 1..MaxArgs arguments, at
\* the top level, under a connective or a quantifier, and inside parentheses
ArityInputs ==
  LET Args == SeqsOf(TermAtomWords, 1, MaxArgs)
      Preds == {Application(sym, args) : sym \in {s_predP, s_predQ}, args \in Args}
      Funcs == {Application(sym, args) : sym \in {s_funcF, s_funcG}, args \in Args}
  IN Preds
     \cup {<<"(">> \o f \o <<")">> : f \in Preds}
     \cup {Cs(s_neg) \o f : f \in Preds}
     \cup {Cs(s_phi) \o Cs(s_land) \o f : f \in Preds}
     \cup {Cs(s_forall) \o <<"x">> \o f : f \in Preds}
     \cup {t \o <<"=","a">> : t \in Funcs}
     \cup {<<"a","=">> \o t : t \in Funcs}
     \cup {<<"(">> \o t \o <<")","=","a">> : t \in Funcs}
     \cup {<<"(">> \o t \o <<"=","a",")">> : t \in Funcs}
     \cup {Cw(s_predP) \o <<"(">> \o t \o <<")">> : t \in Funcs}

InitArity == \E inp \in ArityInputs : Start(inp, sampleSyntax)

SpecArity == InitArity /\ [][Next]_vars

\* sampleSyntax with a quantifier spelled \every and labelled all
QuantTable == sampleSyntax @@ (s_every :> Quantifier(s_all))

BinderWords ==
  {q \o v : q \in {Cs(s_forall), Cs(s_every)}, v \in {<<"x">>, <<"y">>, <<"a">>}}
SubscriptedBinderWords ==
  {Cs(s_forall) \o v : v \in {<<"x","_","1">>, <<"a","_","1">>}}
VarAtomWords ==
  {<<"x","=","x">>, <<"x","=","y">>, <<"y","=","a">>, <<"x","_","1","=","x">>,
   Cw(s_phi) \o <<"(","x",")">>, Cw(s_phi) \o <<"(","y",")">>, Cs(s_phi)}
FewVarAtomWords == {<<"x","=","x">>, Cw(s_psi) \o <<"(","y",")">>, Cs(s_phi)}

Paren(w) == <<"(">> \o w \o <<")">>

\* formulas with variables free, bound, bound twice, and eigenvariables bound
VarInputs ==
  VarAtomWords
  \cup {b \o f : b \in BinderWords \cup SubscriptedBinderWords, f \in VarAtomWords}
  \cup {b \o c \o f : b \in BinderWords, c \in BinderWords, f \in VarAtomWords}
  \cup {Paren(b \o f) \o Cs(s_land) \o g :
          b \in BinderWords, f \in VarAtomWords, g \in VarAtomWords}
  \cup {b \o f \o Cs(s_land) \o g :
          b \in BinderWords, f \in FewVarAtomWords, g \in VarAtomWords}
  \cup {b \o Paren(f \o Cs(s_land) \o g) :
          b \in BinderWords, f \in FewVarAtomWords, g \in VarAtomWords}
  \cup {Paren(b \o f) \o Cs(s_lor) \o Paren(c \o g) :
          b \in BinderWords, c \in BinderWords,
          f \in FewVarAtomWords, g \in FewVarAtomWords}

InitVars == \E inp \in VarInputs : Start(inp, QuantTable)

SpecVars == InitVars /\ [][Next]_vars

\* the largest number of variables in a metavariable's list
MaxList == 2

ListVarWords == {<<"x">>, <<"y">>, <<"a">>}

\* \phi, \phi(x), \phi(x,y), ...
Metavariable(name, list) ==
  IF list = <<>> THEN Cw(name) ELSE Cw(name) \o Paren(Join(list, <<",">>))

MetavarWords ==
  {Metavariable(name, list) :
     name \in {s_phi, s_psi}, list \in SeqsOf(ListVarWords, 0, MaxList)}
FewMetavarWords ==
  {Metavariable(s_phi, list) :
     list \in {<<>>, <<<<"x">>>>, <<<<"x">>, <<"y">>>>, <<<<"y">>, <<"x">>>>,
               <<<<"x">>, <<"x">>>>}}
  \cup {Metavariable(s_psi, <<<<"x">>>>)}
SubscriptedMetavarWords ==
  {Metavariable(s_phi, list) :
     list \in {<<<<"a","_","1">>>>, <<<<"x">>, <<"a","_","{","1","2","}">>>>,
               <<<<"s","_","2">>>>}}

ForallXY(w) == Cs(s_forall) \o <<"x">> \o Cs(s_forall) \o <<"y">> \o Paren(w)

\* formulas of metavariables with and without lists, the listed variables bound
\* or not
SubsInputs ==
  MetavarWords \cup SubscriptedMetavarWords
  \cup {m \o Cw(s_land) \o n :
          m \in FewMetavarWords \cup {Cw(s_psi)}, n \in FewMetavarWords \cup {Cw(s_psi)}}
  \cup {ForallXY(m \o Cw(s_land) \o n) : m \in MetavarWords, n \in MetavarWords}
  \cup {ForallXY(Paren(m \o Cw(s_land) \o n) \o Cw(s_lor) \o o) :
          m \in FewMetavarWords, n \in FewMetavarWords, o \in FewMetavarWords}
  \cup {ForallXY(m \o Cw(s_rightarrow) \o Cw(s_neg) \o Paren(n \o Cw(s_lor) \o o)) :
          m \in FewMetavarWords, n \in FewMetavarWords, o \in FewMetavarWords}

InitSubs == \E inp \in SubsInputs : Start(inp, basicSyntax)

SpecSubs == InitSubs /\ [][Next]_vars

\* binders for formulas that break several rules at once
OrderBinderWords ==
  {<<>>, Cs(s_forall) \o <<"x">>, Cs(s_forall) \o <<"a">>,
   Cs(s_forall) \o <<"x">> \o Cs(s_forall) \o <<"x">>,
   Cs(s_forall) \o <<"x">> \o Cs(s_forall) \o <<"y">>}
OrderMetavarWords ==
  {Metavariable(s_phi, list) :
     list \in {<<>>, <<<<"x">>>>, <<<<"y">>>>, <<<<"a">>>>, <<<<"x">>, <<"a">>>>}}
OrderBodyWords ==
  OrderMetavarWords
  \cup {m \o Cw(s_land) \o n : m \in OrderMetavarWords, n \in OrderMetavarWords}
OrderTailWords == {<<>>, <<")">>, Cw(s_land)}

\* formulas in which a free variable, an inconsistent list, a variable bound
\* twice, a listed eigenvariable, a bound eigenvariable and a stray token meet
OrderInputs ==
  {b \o Paren(f) \o t : b \in OrderBinderWords, f \in OrderBodyWords, t \in OrderTailWords}
  \cup {Paren(b \o f) \o Cw(s_land) \o g :
          b \in OrderBinderWords, f \in OrderMetavarWords, g \in OrderMetavarWords}

InitOrder == \E inp \in OrderInputs : Start(inp, basicSyntax)

SpecOrder == InitOrder /\ [][Next]_vars

\* the largest number of digits of a subscript
MaxDigits == 3

DigitStrings == SeqsOf({"0", "1", "2"}, 1, MaxDigits)
SubscriptLetters == {"a", "x"}
SubscriptPlaces == {"term", "binder", "list", "metavariable"}

\* _d and _{d}
Subscript(d, braced) ==
  IF braced THEN <<"_", "{">> \o d \o <<"}">> ELSE <<"_">> \o d

\* the letter v with the subscript d as a term, as the variable a quantifier
\* binds and as an entry of a metavariable's list, and \phi with the subscript d
SubscriptInput(place, v, d, braced) ==
  LET w == <<v>> \o Subscript(d, braced) IN
  CASE place = "term" -> w \o <<"=", "b">>
    [] place = "binder" -> Cs(s_exists) \o w \o <<" ">> \o w \o <<"=", "b">>
    [] place = "list" -> Cs(s_forall) \o w \o Cw(s_phi) \o Paren(w)
    [] place = "metavariable" ->
         Cw(s_phi) \o Subscript(d, braced) \o Cw(s_land) \o Cw(s_psi)

SubscriptInputs ==
  {SubscriptInput(place, v, d, braced) :
     place \in SubscriptPlaces, v \in SubscriptLetters, d \in DigitStrings,
     braced \in BOOLEAN}

InitSubscript == \E inp \in SubscriptInputs : Start(inp, sampleSyntax)

SpecSubscript == InitSubscript /\ [][Next]_vars

\* a group in parentheses: bare, with \left and \right, and the two mixed forms
GroupForms == {"bare", "macro", "leftOnly", "rightOnly"}
Group(form, w) ==
  (IF form \in {"macro", "leftOnly"} THEN s_left ELSE <<>>) \o <<"(">> \o w
  \o (IF form \in {"macro", "rightOnly"} THEN s_right ELSE <<>>) \o <<")">>

\* formulas, terms and lists a group holds; the last ones of each do not parse
\* or fail a later check
GroupFormulaWords ==
  {Cw(s_phi) \o Cw(s_lor) \o Cw(s_psi), Cw(s_phi), <<"a", "=", "b">>,
   Cs(s_forall) \o <<"x">> \o Cw(s_phi) \o <<"(", "x", ")">>,
   <<"x", "=", "b">>, Cs(s_forall) \o <<"a">> \o Cw(s_phi),
   Cw(s_predP) \o <<"(", "a", ",", "b", ")">>, Cw(s_phi) \o Cw(s_lor), <<"a", "=">>}
GroupTermWords ==
  {<<"a", "+", "b">>, <<"a">>, Cw(s_funcF) \o <<"(", "a", ")">>,
   <<"x", "+", "b">>, Cw(s_funcF) \o <<"(", "a", ",", "b", ")">>, <<"a", "+">>}
GroupPlaces ==
  {"formulaLeft", "formulaRight", "negated", "quantified", "termLeft", "termRight",
   "predicateArgs", "functionArgs", "metavariableList", "nested", "nestedTerm"}

\* the group of form form around w at the place place
GroupInput(place, form, w) ==
  CASE place = "formulaLeft" -> Group(form, w) \o Cw(s_land) \o Cw(s_chi)
    [] place = "formulaRight" -> Cw(s_chi) \o Cw(s_land) \o Group(form, w)
    [] place = "negated" -> Cw(s_neg) \o Group(form, w)
    [] place = "quantified" -> Cs(s_forall) \o <<"y">> \o Group(form, w)
    [] place = "nested" -> Group(form, Group(form, w) \o Cw(s_land) \o Cw(s_chi))
    [] place = "termLeft" -> Group(form, w) \o Cs(s_cdot) \o <<"c", "=", "d">>
    [] place = "termRight" -> <<"c", "=", "d">> \o Cw(s_cdot) \o Group(form, w)
    [] place = "nestedTerm" -> Cw(s_predP) \o Group(form, Group(form, w))
    [] place = "predicateArgs" -> Cw(s_predQ) \o Group(form, w \o <<",", "c">>)
    [] place = "functionArgs" -> Cw(s_funcG) \o Group(form, <<"c", ",">> \o w) \o <<"=", "d">>
    [] place = "metavariableList" -> Cw(s_phi) \o Group(form, <<"a", ",", "b">>)

GroupWords(place) ==
  IF place \in {"formulaLeft", "formulaRight", "negated", "quantified", "nested"}
  THEN GroupFormulaWords
  ELSE IF place = "metavariableList" THEN {<<>>}
  ELSE GroupTermWords

GroupInputs ==
  UNION {{GroupInput(place, form, w) : form \in GroupForms, w \in GroupWords(place)} :
           place \in GroupPlaces}

InitGroup == \E inp \in GroupInputs : Start(inp, sampleSyntax)

SpecGroup == InitGroup /\ [][Next]_vars

\* the largest number of pieces of a text
MaxText == 5

\* every text put together from a backslash, a space, a letter, a sign of the
\* table and the names of a metavariable and of a connective
TextPieces == {<<"\\">>, <<" ">>, <<"a">>, <<"=">>, s_phi, s_land}
TextInputs == {<<>>} \cup {Join(pieces, <<>>) : pieces \in SeqsOf(TextPieces, 1, MaxText)}

InitText == \E inp \in TextInputs : Start(inp, basicSyntax)

SpecText == InitText /\ [][Next]_vars

\* the largest number of parentheses around a group
MaxDepth == 2

\* w inside d groups of the form form
RECURSIVE Groups(_, _, _)
Groups(form, w, d) == IF d = 0 THEN w ELSE Group(form, Groups(form, w, d - 1))

\* what follows the group: nothing, the rest of a formula, the rest of a term
BacktrackTailWords ==
  {<<>>, Cw(s_land) \o Cw(s_chi), <<"=", "c">>, Cs(s_cdot) \o <<"c", "=", "d">>, <<"+">>}

\* a parenthesized formula or term first, alone and after \neg
BacktrackInputs ==
  {pre \o Groups(form, w, d) \o t :
     pre \in {<<>>, Cw(s_neg)}, form \in {"bare", "macro"},
     w \in GroupFormulaWords \cup GroupTermWords,
     d \in 1..MaxDepth, t \in BacktrackTailWords}

InitBacktrack == \E inp \in BacktrackInputs : Start(inp, sampleSyntax)

SpecBacktrack == InitBacktrack /\ [][Next]_vars

\* words that are variables, and words that are not: control words, a capital
\* letter, a digit, a sign
VariableWords ==
  {<<"x">>, <<"z">>, <<"x", "_", "1">>, <<"x", "_", "{", "1", "2", "}">>, <<"a">>}
NonVariableWords ==
  {Cw(s_land), Cw(s_phi), Cw(s_predP), Cw(s_forall), Cw(s_top), s_right,
   <<"A">>, <<"1">>, <<"=">>}
VariablePlaces == {"binder", "term", "list"}

\* the word w where parseVariable reads: after a quantifier, as the right term
\* of an equation, as the second entry of a metavariable's list
VariableInput(place, w) ==
  CASE place = "binder" -> Cs(s_forall) \o w \o Cw(s_phi)
    [] place = "term" -> <<"a", "=">> \o w
    [] place = "list" ->
         Cs(s_forall) \o <<"x">> \o Cw(s_phi) \o Paren(<<"x", ",">> \o w)

VariableInputs ==
  {pre \o VariableInput(place, w) :
     pre \in {<<>>, Cs(s_neg)}, place \in VariablePlaces,
     w \in VariableWords \cup NonVariableWords}

InitVariable == \E inp \in VariableInputs : Start(inp, sampleSyntax)

SpecVariable == InitVariable /\ [][Next]_vars

\* an argument of a prefix function: a variable, an infix term bare and in
\* parentheses, an application
ArgumentKinds == {"variable", "infix", "grouped", "application"}
InfixOperators == {"plus", "times"}
Arguments == [kind : ArgumentKinds, op : InfixOperators]

OperatorWord(op) == IF op = "plus" THEN s_plus ELSE Cs(s_cdot)
OperatorLabel(op) == IF op = "plus" THEN s_plusLabel ELSE s_times

ArgumentWord(arg) ==
  CASE arg.kind = "variable" -> <<"a">>
    [] arg.kind = "infix" -> <<"a">> \o OperatorWord(arg.op) \o <<"b">>
    [] arg.kind = "grouped" -> Paren(<<"a">> \o OperatorWord(arg.op) \o <<"b">>)
    [] arg.kind = "application" -> Cw(s_funcF) \o Paren(<<"b">>)

\* \funcF with one argument and \funcG with two
ArgumentLists == SeqsOf(Arguments, 1, 2)
AppliedFunction(args) == IF Len(args) = 1 THEN s_funcF ELSE s_funcG
ApplicationWord(args) ==
  Cw(AppliedFunction(args)) \o Paren(Join([i \in 1..Len(args) |-> ArgumentWord(args[i])],
                                         <<",">>))

ApplicationPlaces == {"left", "right", "operand", "predicate"}

\* the application as a side of an equation, as the left operand of the infix
\* function op, and as the argument of a predicate
ApplicationInput(place, op, args) ==
  CASE place = "left" -> ApplicationWord(args) \o <<"=", "c">>
    [] place = "right" -> <<"c", "=">> \o ApplicationWord(args)
    [] place = "operand" ->
         ApplicationWord(args) \o OperatorWord(op) \o <<"b", "=", "c">>
    [] place = "predicate" -> Cw(s_predP) \o Paren(ApplicationWord(args))

ApplicationInputs ==
  {ApplicationInput(place, op, args) :
     place \in ApplicationPlaces, op \in InfixOperators, args \in ArgumentLists}

InitApplication == \E inp \in ApplicationInputs : Start(inp, sampleSyntax)

SpecApplication == InitApplication /\ [][Next]_vars

\* parse called on any input of the families above
Init ==
  \/ InitAssoc \/ InitPrec \/ InitArity \/ InitVars \/ InitSubs \/ InitOrder
  \/ InitSubscript \/ InitGroup \/ InitText \/ InitBacktrack \/ InitVariable
  \/ InitApplication

Spec == Init /\ [][Next]_vars

\* parse run call by call on the inputs that nest groups, apply functions
\* and bind variables
InitByCalls == InitBacktrack \/ InitApplication \/ InitVariable

\* parse is one synchronous call: a step that can be taken is taken
SpecByCalls == InitByCalls /\ [][NextByCalls]_vars /\ WF_vars(NextByCalls)

-----------------------------------------------------------------------------
(* What the claims speak of *)

Done == pc = "done"
\* the tokens parse started from
InputTokens == tokenize(input, syntax)

\* the tree of a one-token formula, as the parser builds it and as parse returns it
IsFormulaAtom(tok) ==
  tok.kind = "metavariable" \/ (tok.kind = "connective" /\ tok.style = "nullary")
RawAtom(tok) ==
  IF tok.kind = "metavariable" THEN Node(<<Leaf(s_metavar), Leaf(tok.letter)>>)
  ELSE Leaf(tok.label)
FinalAtom(tok) == IF tok.kind = "metavariable" THEN Leaf(tok.letter) ELSE Leaf(tok.label)
IsTermAtom(tok) == tok.kind = "char" /\ Len(tok.value) = 1 /\ tok.value[1] \in Lower

\* [L, [L, a, b], c] and [L, a, [L, b, c]] over the operand trees
RECURSIVE LeftNested(_, _), RightNested(_, _)
LeftNested(label, trees) ==
  IF Len(trees) = 1 THEN trees[1]
  ELSE Node(<<Leaf(label), LeftNested(label, SubSeq(trees, 1, Len(trees) - 1)),
              trees[Len(trees)]>>)
RightNested(label, trees) ==
  IF Len(trees) = 1 THEN trees[1]
  ELSE Node(<<Leaf(label), trees[1], RightNested(label, Tail(trees))>>)

\* the tokens at the odd positions 1, 3, ... n of toks
Operands(toks, n) == [i \in 1..((n + 1) \div 2) |-> toks[2 * i - 1]]

\* toks is a L b L c ... with one infix connective L and at least three operands
IsConnectiveChain(toks) ==
  /\ Len(toks) >= 5 /\ Len(toks) % 2 = 1
  /\ \A i \in 1..Len(toks) :
       IF i % 2 = 1 THEN IsFormulaAtom(toks[i])
       ELSE toks[i].kind = "connective" /\ toks[i].style = "infix" /\ toks[i] = toks[2]

\* toks is a f b f c ... = d with one infix function f and at least three operands
IsFunctionChain(toks) ==
  /\ Len(toks) >= 7 /\ Len(toks) % 2 = 1
  /\ toks[Len(toks) - 1].kind = "predicate" /\ toks[Len(toks) - 1].style = "infix"
  /\ IsTermAtom(toks[Len(toks)])
  /\ \A i \in 1..(Len(toks) - 2) :
       IF i % 2 = 1 THEN IsTermAtom(toks[i])
       ELSE toks[i].kind = "function" /\ toks[i].style = "infix" /\ toks[i] = toks[2]

Nested(op, trees) ==
  IF op.kind = "connective" /\ op.associativity = "right"
  THEN RightNested(op.label, trees)
  ELSE LeftNested(op.label, trees)

MapSeq(seq, Op(_)) == [i \in 1..Len(seq) |-> Op(seq[i])]
TermAtomTree(tok) == Leaf(tok.value)

\* C1: a chain a L b L c ... of one infix connective L parses to the left-nested
\* tree when L is declared left-associative and to the right-nested tree when L is
\* declared right-associative, and a chain of one infix function parses to the
\* left-nested tree; parse returns that tree.
C1_Associativity ==
  Done =>
    LET toks == InputTokens IN
    /\ IsConnectiveChain(toks) =>
         LET ops == Operands(toks, Len(toks)) IN
         /\ result.kind = "success"
         /\ result.tree = Nested(toks[2], MapSeq(ops, RawAtom))
         /\ ret.kind = "success"
         /\ ret.tree = Nested(toks[2], MapSeq(ops, FinalAtom))
    /\ IsFunctionChain(toks) =>
         LET n == Len(toks)
             ops == Operands(toks, n - 2)
             expected == Node(<<Leaf(toks[n - 1].label),
                                LeftNested(toks[2].label, MapSeq(ops, TermAtomTree)),
                                TermAtomTree(toks[n])>>)
         IN /\ result.kind = "success"
            /\ result.tree = expected
            /\ ret.kind = "success"
            /\ ret.tree = expected

\* a chain of four operands of a right-associative connective of the caller's
\* table has been parsed to the right-nested tree
C1_Witness ==
  /\ Done
  /\ LET toks == InputTokens IN
     /\ IsConnectiveChain(toks)
     /\ Len(toks) = 7
     /\ toks[2].associativity = "right"
     /\ toks[2].label = s_A
     /\ ret.kind = "success"
     /\ ret.tree = RightNested(s_A, MapSeq(Operands(toks, 7), FinalAtom))

\* the tree parse returns for the tree the parser built, when every metavariable
\* in it stands without a list
RECURSIVE Bare(_)
Bare(tree) ==
  IF IsString(tree) THEN tree
  ELSE IF Len(tree.k) = 2 /\ tree.k[1] = Leaf(s_metavar) THEN tree.k[2]
  ELSE Node([i \in 1..Len(tree.k) |-> Bare(tree.k[i])])

IsInfixConnective(tok) == tok.kind = "connective" /\ tok.style = "infix"
IsDefaultInfixConnective(tok) ==
  /\ IsInfixConnective(tok)
  /\ \E key \in {s_land, s_lor, s_rightarrow, s_leftrightarrow} :
       tok = [value |-> <<"\\">> \o key] @@ basicSyntax[key]

\* parseFormula built the tree expected, and parse returned it
ParsesTo(expected) ==
  /\ result.kind = "success"
  /\ result.tree = expected
  /\ ret.kind = "success"
  /\ ret.tree = Bare(expected)

\* C2: in a L1 b L2 c the operator of higher precedence binds tighter, whatever
\* the two associativities: [L2, [L1, a, b], c] when L1 has the higher precedence
\* and [L1, a, [L2, b, c]] when L2 has; negation and a quantifier take only the
\* primary formula that follows them, so that an infix connective of the default
\* table after it applies to the negation, or to the quantification, as a whole.
C2_Precedence ==
  Done =>
    LET toks == InputTokens IN
    /\ ( /\ Len(toks) = 5
         /\ IsFormulaAtom(toks[1]) /\ IsFormulaAtom(toks[3]) /\ IsFormulaAtom(toks[5])
         /\ IsInfixConnective(toks[2]) /\ IsInfixConnective(toks[4]) ) =>
           LET a == RawAtom(toks[1])
               b == RawAtom(toks[3])
               c == RawAtom(toks[5])
               L1 == toks[2]
               L2 == toks[4]
           IN /\ L1.precedence > L2.precedence =>
                   ParsesTo(Node(<<Leaf(L2.label), Node(<<Leaf(L1.label), a, b>>), c>>))
              /\ L1.precedence < L2.precedence =>
                   ParsesTo(Node(<<Leaf(L1.label), a, Node(<<Leaf(L2.label), b, c>>)>>))
    /\ ( /\ Len(toks) = 4
         /\ toks[1] = [value |-> <<"\\">> \o s_neg] @@ basicSyntax[s_neg]
         /\ IsFormulaAtom(toks[2]) /\ IsFormulaAtom(toks[4])
         /\ IsDefaultInfixConnective(toks[3]) ) =>
           ParsesTo(Node(<<Leaf(toks[3].label),
                           Node(<<Leaf(s_not), RawAtom(toks[2])>>),
                           RawAtom(toks[4])>>))
    /\ ( /\ Len(toks) = 5
         /\ toks[1].kind = "quantifier"
         /\ toks[2].kind = "char" /\ isRegVar(Leaf(toks[2].value))
         /\ IsFormulaAtom(toks[3]) /\ IsFormulaAtom(toks[5])
         /\ IsDefaultInfixConnective(toks[4]) ) =>
           ParsesTo(Node(<<Leaf(toks[4].label),
                           Node(<<Leaf(toks[1].label), Leaf(toks[2].value),
                                  RawAtom(toks[3])>>),
                           RawAtom(toks[5])>>))

\* a right-associative connective of the higher precedence came first and a
\* left-associative one of the lower precedence second, and the first bound tighter
C2_Witness ==
  /\ Done
  /\ LET toks == InputTokens IN
     /\ Len(toks) = 5
     /\ IsInfixConnective(toks[2]) /\ IsInfixConnective(toks[4])
     /\ toks[2].associativity = "right" /\ toks[4].associativity = "left"
     /\ toks[2].precedence = toks[4].precedence + 1
     /\ ret.kind = "success"
     /\ ret.tree = Node(<<Leaf(toks[4].label),
                          Node(<<Leaf(toks[2].label), Leaf(s_phi), Leaf(s_psi)>>),
                          Leaf(s_chi)>>)

\* at position i of toks a prefix predicate or function stands before a
\* parenthesized list of k variables, and k is not its arity
WrongApplication(toks, i, k) ==
  /\ i + 2 * k + 1 <= Len(toks)
  /\ toks[i].kind \in {"predicate", "function"}
  /\ toks[i].style = "prefix"
  /\ toks[i + 1].value = <<"(">>
  /\ \A j \in 1..k : IsTermAtom(toks[i + 2 * j])
  /\ \A j \in 1..(k - 1) : toks[i + 2 * j + 1].value = <<",">>
  /\ toks[i + 2 * k + 1].value = <<")">>
  /\ k # toks[i].arity

WrongApplications(toks) ==
  {ik \in (1..Len(toks)) \X (1..Len(toks)) : WrongApplication(toks, ik[1], ik[2])}

\* C3: a prefix predicate or function applied to a number of arguments other
\* than its arity makes parse return WrongNumArgs with the symbol, the expected
\* and the actual count, wherever the application stands, inside parentheses too.
C3_WrongNumArgs ==
  Done =>
    LET toks == InputTokens
        wrong == WrongApplications(toks)
    IN wrong # {} =>
         /\ ret.kind = "error"
         /\ ret.msg = "WrongNumArgs"
         /\ \E ik \in wrong :
              /\ ret.symbol = toks[ik[1]].value
              /\ ret.expected = toks[ik[1]].arity
              /\ ret.actual = ik[2]

\* the syntactic stage passed: parseFormula succeeded and left no token
ParsedAll == result.kind = "success" /\ tokens = <<>>

QuantifierLabels(syn) ==
  {syn[key].label : key \in {k \in DOMAIN syn : syn[k].kind = "quantifier"}}
IsQuantification(tree, syn) ==
  /\ ~IsString(tree)
  /\ Len(tree.k) = 3
  /\ IsString(tree.k[1]) /\ tree.k[1].v \in QuantifierLabels(syn)
  /\ IsString(tree.k[2])

\* an ordinary variable stands in tree outside the scope of every quantifier that
\* binds its name, bound being the names bound around tree
RECURSIVE OccursFree(_, _, _)
OccursFree(tree, bound, syn) ==
  IF IsString(tree) THEN isRegVar(tree) /\ tree.v \notin bound
  ELSE IF IsQuantification(tree, syn)
  THEN OccursFree(tree.k[3], bound \cup {tree.k[2].v}, syn)
  ELSE \E i \in 2..Len(tree.k) : OccursFree(tree.k[i], bound, syn)

\* C4: for an input that parses with no leftover token, parse returns FreeVar
\* if and only if an ordinary variable occurs, as a term or in a metavariable's
\* list, outside the scope of every quantifier binding its name.
C4_FreeVar ==
  (Done /\ ParsedAll) =>
    ((ret.kind = "error" /\ ret.msg = "FreeVar") <=> OccursFree(result.tree, {}, syntax))

\* the metavariable nodes [_metavar, name, v1, ...] of the tree the parser built
RECURSIVE Occurrences(_)
Occurrences(tree) ==
  IF IsString(tree) THEN {}
  ELSE IF tree.k # <<>> /\ tree.k[1] = Leaf(s_metavar) THEN {tree}
  ELSE UNION {Occurrences(tree.k[i]) : i \in 1..Len(tree.k)}

NameOf(occ) == occ.k[2].v
ListOf(occ) == [i \in 1..(Len(occ.k) - 2) |-> occ.k[i + 2].v]
Range(seq) == {seq[i] : i \in 1..Len(seq)}
DeclaredSet(occ) == Range(ListOf(occ))

Consistent(tree) ==
  \A o1 \in Occurrences(tree), o2 \in Occurrences(tree) :
    NameOf(o1) = NameOf(o2) => DeclaredSet(o1) = DeclaredSet(o2)

\* map is a Map from exactly the metavariable names of tree, each to a Set that
\* holds the variables every occurrence of the name declares
HoldsCommonSets(map, tree) ==
  /\ \A i \in 1..Len(map), j \in 1..Len(map) : map[i][1] = map[j][1] => i = j
  /\ {map[i][1] : i \in 1..Len(map)} = {NameOf(o) : o \in Occurrences(tree)}
  /\ \A i \in 1..Len(map) :
       /\ Len(map[i][2]) = Cardinality(Range(map[i][2]))
       /\ \A o \in Occurrences(tree) :
            NameOf(o) = map[i][1] => DeclaredSet(o) = Range(map[i][2])

\* the consistency check has run
SubsChecked == pc \in {"eigen", "done"} /\ processed # None

\* C5: the consistency check passes exactly when all occurrences of one
\* metavariable name, anywhere in the tree, declare the same set of variables;
\* otherwise parse returns InconsistentAllowedSubs naming a metavariable with two
\* differing declarations; on success the map holds the common sets.
C5_Consistency ==
  SubsChecked =>
    /\ processed.kind = "success" <=> Consistent(result.tree)
    /\ processed.kind = "error" =>
         /\ processed.msg = "InconsistentAllowedSubs"
         /\ \E o1 \in Occurrences(result.tree), o2 \in Occurrences(result.tree) :
              /\ NameOf(o1) = processed.metavar
              /\ NameOf(o2) = processed.metavar
              /\ DeclaredSet(o1) # DeclaredSet(o2)
         /\ Done => ret = processed
    /\ processed.kind = "success" => HoldsCommonSets(processed.allowedSubs, result.tree)
    /\ (Done /\ ret.kind = "success") => HoldsCommonSets(ret.allowedSubs, result.tree)

\* parse succeeded on a formula that lists the same two variables for \phi in
\* two orders, in different subtrees
C5_Witness ==
  /\ Done
  /\ ret.kind = "success"
  /\ \E o1 \in Occurrences(result.tree), o2 \in Occurrences(result.tree) :
       /\ NameOf(o1) = NameOf(o2)
       /\ ListOf(o1) # ListOf(o2)
       /\ Cardinality(DeclaredSet(o1)) = 2
  /\ Cardinality(Occurrences(result.tree)) = 3

\* the names that stand in tree once without a list and once with one
MixedNames(tree) ==
  {NameOf(o1) : o1 \in {o \in Occurrences(tree) :
     /\ ListOf(o) = <<>>
     /\ \E o2 \in Occurrences(tree) : NameOf(o2) = NameOf(o) /\ ListOf(o2) # <<>>}}
BareNames(tree) == {NameOf(o) : o \in {o1 \in Occurrences(tree) : ListOf(o1) = <<>>}}

\* on success every metavariable written without a list is mapped to the empty set
BareNamesMapped ==
  (Done /\ ParsedAll /\ ret.kind = "success") =>
    \A name \in BareNames(result.tree) :
      \E i \in 1..Len(ret.allowedSubs) : ret.allowedSubs[i] = <<name, <<>>>>

\* C6 as stated: a metavariable without a list is mapped to the empty set on
\* success, and a formula with the same name once without a list and once with a
\* non-empty list fails with InconsistentAllowedSubs.
C6_Stated ==
  /\ BareNamesMapped
  /\ (Done /\ ParsedAll /\ MixedNames(result.tree) # {}) =>
       /\ ret.kind = "error"
       /\ ret.msg = "InconsistentAllowedSubs"
       /\ ret.metavar \in MixedNames(result.tree)

\* C6: a metavariable without a list is mapped to the empty set on success, and a
\* formula with the same name once without a list and once with a non-empty list
\* fails: with FreeVar when an ordinary variable is free in it, and otherwise with
\* InconsistentAllowedSubs naming such a metavariable.
C6_NoListIsEmptySet ==
  /\ BareNamesMapped
  /\ (Done /\ ParsedAll /\ MixedNames(result.tree) # {}) =>
       /\ ret.kind = "error"
       /\ IF OccursFree(result.tree, {}, syntax)
          THEN ret.msg = "FreeVar"
          ELSE /\ ret.msg = "InconsistentAllowedSubs"
               /\ ret.metavar \in MixedNames(result.tree)

\* \phi stood once without a list and once with a list of bound variables, and
\* parse returned InconsistentAllowedSubs for it
C6_Witness ==
  /\ Done /\ ParsedAll
  /\ s_phi \in MixedNames(result.tree)
  /\ ~OccursFree(result.tree, {}, syntax)
  /\ ret.kind = "error"
  /\ ret.msg = "InconsistentAllowedSubs"
  /\ ret.metavar = s_phi

Phi_land_psi == Cw(s_phi) \o Cw(s_land) \o Cw(s_psi)
And_phi_psi == Node(<<Leaf(s_and), Leaf(s_phi), Leaf(s_psi)>>)

\* C7 as stated: \phi\land\psi with the default table gives the tree
\* ["and", "phi", "psi"] and a substitution map with no entries.
C7_Stated ==
  (Done /\ input = Phi_land_psi /\ syntax = basicSyntax) =>
    /\ ret.kind = "success"
    /\ ret.tree = And_phi_psi
    /\ ret.allowedSubs = <<>>

\* C7: \phi\land\psi with the default table gives the tree ["and", "phi", "psi"]
\* and a substitution map of exactly two entries, phi and psi, each mapped to
\* the empty set.
C7_PhiLandPsi ==
  (Done /\ input = Phi_land_psi /\ syntax = basicSyntax) =>
    /\ ret.kind = "success"
    /\ ret.tree = And_phi_psi
    /\ ret.allowedSubs = <<<<s_phi, <<>>>>, <<s_psi, <<>>>>>>

\* parse has returned a success with a map of two entries for \phi\land\psi
C7_Witness ==
  /\ Done /\ input = Phi_land_psi /\ syntax = basicSyntax
  /\ ret.kind = "success"
  /\ Len(ret.allowedSubs) = 2

\* the variables the quantifiers of tree bind
RECURSIVE BoundIn(_, _)
BoundIn(tree, syn) ==
  IF IsString(tree) THEN {}
  ELSE IF IsQuantification(tree, syn)
  THEN {tree.k[2].v} \cup BoundIn(tree.k[3], syn)
  ELSE UNION {BoundIn(tree.k[i], syn) : i \in 1..Len(tree.k)}

\* the variables bound by a quantifier and again inside its scope, or bound in
\* two sibling subformulas of one node
RECURSIVE DoublyBound(_, _)
DoublyBound(tree, syn) ==
  IF IsString(tree) THEN {}
  ELSE IF IsQuantification(tree, syn)
  THEN ({tree.k[2].v} \cap BoundIn(tree.k[3], syn)) \cup DoublyBound(tree.k[3], syn)
  ELSE UNION ({DoublyBound(tree.k[i], syn) : i \in 1..Len(tree.k)}
              \cup {IF i = j THEN {}
                      ELSE BoundIn(tree.k[i], syn) \cap BoundIn(tree.k[j], syn) :
                      i \in 1..Len(tree.k), j \in 1..Len(tree.k)})

\* C8: when no earlier stage fails, a formula in which a variable is bound by a
\* quantifier and again inside its scope, or in two sibling subformulas, makes
\* parse return DoubleBound naming that variable.
C8_DoubleBound ==
  (Done /\ ParsedAll /\ processed # None /\ processed.kind = "success"
        /\ DoublyBound(result.tree, syntax) # {}) =>
    /\ ret.kind = "error"
    /\ ret.msg = "DoubleBound"
    /\ ret.variable \in DoublyBound(result.tree, syntax)

\* the name of the variable that starts at position i of toks, if it is an
\* eigenvariable: a letter a-r, with the subscript _d when one follows
EigenvarAt(toks, i) ==
  IF i <= Len(toks) /\ toks[i].kind = "char" /\ toks[i].value[1] \in LowerAR
  THEN IF /\ i + 2 <= Len(toks)
          /\ toks[i + 1].value = <<"_">>
          /\ toks[i + 2].kind = "char" /\ toks[i + 2].value[1] \in Digit
       THEN <<toks[i].value \o <<"_">> \o toks[i + 2].value>>
       ELSE <<toks[i].value>>
  ELSE <<>>

\* the eigenvariables that follow a quantifier token in toks
BoundEigenvars(toks) ==
  UNION {Range(EigenvarAt(toks, i + 1)) :
           i \in {j \in 1..Len(toks) : toks[j].kind = "quantifier"}}

\* C9: whenever a quantifier token is followed by an eigenvariable as the
\* variable it binds, parse returns BoundEigenvar naming that variable, wherever
\* the quantifier stands, inside a parenthesized group too.
C9_BoundEigenvar ==
  Done =>
    LET eigen == BoundEigenvars(InputTokens) IN
    eigen # {} =>
      /\ ret.kind = "error"
      /\ ret.msg = "BoundEigenvar"
      /\ ret.variable \in eigen

\* <<name, v>> for every eigenvariable v in the list of a metavariable name
DeclaredEigenvars(tree) ==
  UNION {{<<NameOf(o), v>> : v \in {w \in DeclaredSet(o) : VarShape(w, LowerAR)}} :
           o \in Occurrences(tree)}

\* C10: for a formula that passes parsing, the free-variable check and the
\* consistency check, an eigenvariable in the list of some metavariable makes
\* parse return EigenvarDeclaredFree with such a variable and its metavariable,
\* and parse never succeeds with an eigenvariable in a set of the map.
C10_EigenvarDeclaredFree ==
  (Done /\ ParsedAll /\ processed # None /\ processed.kind = "success") =>
    /\ DeclaredEigenvars(result.tree) # {} =>
         /\ ret.kind = "error"
         /\ ret.msg = "EigenvarDeclaredFree"
         /\ <<ret.metavariable, ret.variable>> \in DeclaredEigenvars(result.tree)
    /\ ret.kind = "success" =>
         \A i \in 1..Len(ret.allowedSubs) :
           \A v \in Range(ret.allowedSubs[i][2]) : ~VarShape(v, LowerAR)
    /\ DeclaredEigenvars(result.tree) = {} => ret = processed

\* the second metavariable of a formula lists an eigenvariable after an ordinary
\* variable, and parse returned EigenvarDeclaredFree for it
C10_Witness ==
  /\ Done
  /\ ret.kind = "error"
  /\ ret.msg = "EigenvarDeclaredFree"
  /\ ret.variable = <<"a">>
  /\ ret.metavariable = s_psi
  /\ \E o \in Occurrences(result.tree) : ListOf(o) = <<<<"x">>, <<"a">>>>
  /\ Cardinality(Occurrences(result.tree)) = 2

\* the outcome the order of the stages prescribes for a formula that parsed with
\* no leftover token: the tag of the first stage that finds a violation
FirstSemanticStage(tree, syn) ==
  IF OccursFree(tree, {}, syn) THEN "FreeVar"
  ELSE IF ~Consistent(tree) THEN "InconsistentAllowedSubs"
  ELSE IF DoublyBound(tree, syn) # {} THEN "DoubleBound"
  ELSE IF DeclaredEigenvars(tree) # {} THEN "EigenvarDeclaredFree"
  ELSE "none"

\* the input starts, after at most one opening parenthesis, with a quantifier
\* binding an eigenvariable: the first violation met from the left is that one
StartsWithBoundEigenvar(toks) ==
  \E i \in 1..2 :
    /\ i <= Len(toks)
    /\ toks[i].kind = "quantifier"
    /\ EigenvarAt(toks, i + 1) # <<>>
    /\ i = 2 => toks[1].value = <<"(">>

\* C11: a failed call returns the error of the earliest stage: a parser failure
\* or a leftover token before FreeVar before InconsistentAllowedSubs before
\* DoubleBound before EigenvarDeclaredFree, and within the parser the first
\* violation met from the left.
C11_ErrorOrder ==
  Done =>
    /\ result.kind = "error" => ret = result
    /\ (result.kind = "success" /\ tokens # <<>>) =>
         ret.kind = "error" /\ ret.msg = "BadToken"
    /\ ParsedAll =>
         IF FirstSemanticStage(result.tree, syntax) = "none"
         THEN ret.kind = "success"
         ELSE ret.kind = "error" /\ ret.msg = FirstSemanticStage(result.tree, syntax)
    /\ StartsWithBoundEigenvar(InputTokens) =>
         ret.kind = "error" /\ ret.msg = "BoundEigenvar"

\* C11 without the stage that parse leaves out and without parenthesized groups
\* tried twice: the order parse keeps
C11_OrderKept ==
  Done =>
    /\ result.kind = "error" => ret = result
    /\ (result.kind = "success" /\ tokens # <<>>) =>
         ret.kind = "error" /\ ret.msg = "BadToken"
    /\ ParsedAll =>
         IF OccursFree(result.tree, {}, syntax) THEN ret.kind = "error" /\ ret.msg = "FreeVar"
         ELSE IF ~Consistent(result.tree)
         THEN ret.kind = "error" /\ ret.msg = "InconsistentAllowedSubs"
         ELSE IF DeclaredEigenvars(result.tree) # {}
         THEN ret.kind = "error" /\ ret.msg = "EigenvarDeclaredFree"
         ELSE ret.kind = "success"

\* what parse makes of the letter v subscripted with d, once the subscript is
\* read as the name v_d
SubscriptRead(place, v, d) ==
  LET n == <<v>> \o <<"_">> \o d
      eq == Node(<<Leaf(s_eqLabel), Leaf(n), Leaf(<<"b">>)>>)
      bound == IF place = "binder"
               THEN Node(<<Leaf(s_exists), Leaf(n), eq>>)
               ELSE Node(<<Leaf(s_forall), Leaf(n),
                           Node(<<Leaf(s_metavar), Leaf(s_phi), Leaf(n)>>)>>)
  IN CASE place = "term" ->
            /\ ParsedAll /\ result.tree = eq
            /\ IF v \in LowerSZ
               THEN ret = failWith([msg |-> "FreeVar", variable |-> n])
               ELSE ret.kind = "success" /\ ret.tree = eq
       [] place \in {"binder", "list"} ->
            IF v \in LowerAR
            THEN ret = failWith([msg |-> "BoundEigenvar", variable |-> n])
            ELSE /\ ParsedAll /\ result.tree = bound
                 /\ ret.kind = "success"
                 /\ place = "list" => ret.allowedSubs = <<<<s_phi, <<n>>>>>>
       [] place = "metavariable" ->
            /\ ParsedAll
            /\ result.tree =
                 Node(<<Leaf(s_and), Node(<<Leaf(s_metavar), Leaf(s_phi \o <<"_">> \o d)>>),
                        Node(<<Leaf(s_metavar), Leaf(s_psi)>>)>>)
            /\ ret.kind = "success"
            /\ ret.allowedSubs = <<<<s_phi \o <<"_">> \o d, <<>>>>, <<s_psi, <<>>>>>>

\* C12: a subscript d of two or more digits is read only in braces, v_{d} being
\* the name v_d, and the unbraced v_d makes parse fail; a subscript of one digit
\* is read with or without braces as the same name.
C12_Subscripts ==
  Done =>
    \A place \in SubscriptPlaces, v \in SubscriptLetters, d \in DigitStrings,
       braced \in BOOLEAN :
      input = SubscriptInput(place, v, d, braced) =>
        IF braced \/ Len(d) = 1
        THEN SubscriptRead(place, v, d)
        ELSE ret.kind = "error"

\* parse has succeeded on \exists x_{12} x_{12}=b with x_12 bound
C12_Witness ==
  /\ Done
  /\ input = SubscriptInput("binder", "x", <<"1", "2">>, TRUE)
  /\ ret.kind = "success"
  /\ ret.tree.k[2] = Leaf(<<"x", "_", "1", "2">>)

\* the value parse returns for input inp with table syn: the steps of parse run
\* one after the other
ParseOutcome(inp, syn) ==
  IF Len(inp) = 0 THEN failWith([msg |-> "BlankExpression"])
  ELSE With(parseFormula(tokenize(inp, syn), 0), LAMBDA p :
    IF p.r.kind = "error" THEN p.r
    ELSE IF Len(p.toks) > 0 THEN failWith([msg |-> "BadToken", actual |-> p.toks[1].value])
    ELSE IF checkFreeVariables(p.r.tree, syn) # <<>>
    THEN failWith([msg |-> "FreeVar", variable |-> checkFreeVariables(p.r.tree, syn)[1]])
    ELSE With(checkAllowedSubs(p.r.tree), LAMBDA subs :
      IF subs.kind = "error" THEN subs
      ELSE IF checkEigenvars(subs.allowedSubs) # <<>>
      THEN failWith(checkEigenvars(subs.allowedSubs)[1])
      ELSE subs))

\* parse has returned what the steps of parse give for its input
ReturnsParseOutcome == Done => ret = ParseOutcome(input, syntax)

\* the error tag of a failure, the whole value of a success
Outcome(r) == IF r.kind = "error" THEN <<"error", r.msg>> ELSE <<"success", r>>

\* C13: a group written with \left( and \right) succeeds exactly when the same
\* group written with ( and ) does, with the same tree and map, and fails with
\* the same error tag; a group that opens in one form and closes in the other
\* is rejected.
C13_LeftRight ==
  Done =>
    \A place \in GroupPlaces : \A w \in GroupWords(place) :
      /\ input = GroupInput(place, "macro", w) =>
           Outcome(ret) = Outcome(ParseOutcome(GroupInput(place, "bare", w), syntax))
      /\ input \in {GroupInput(place, "leftOnly", w), GroupInput(place, "rightOnly", w)} =>
           ret.kind = "error"

\* the text is empty or holds nothing but spaces
IsBlank(inp) == \A i \in 1..Len(inp) : inp[i] = " "

\* C14: for the empty string and for a string of nothing but spaces parse
\* returns the BlankExpression error.
C14_BlankExpression ==
  (Done /\ IsBlank(input)) => ret = failWith([msg |-> "BlankExpression"])

\* the tokens from position k of toks on
Suffix(toks, k) == SubSeq(toks, k, Len(toks))

\* C15: when parseFormula succeeds and a token remains, parse returns BadToken
\* with the spelling of the first token not consumed, before any semantic check:
\* a formula with a free variable and a trailing token gives BadToken, and parse
\* succeeds only with every token consumed.
C15_Leftover ==
  Done =>
    /\ (result.kind = "success" /\ tokens # <<>>) =>
         /\ ret = failWith([msg |-> "BadToken", actual |-> tokens[1].value])
         /\ tokens = Suffix(InputTokens, Len(InputTokens) - Len(tokens) + 1)
    /\ ret.kind = "success" => tokens = <<>>
    /\ \A b \in OrderBinderWords \ {Cs(s_forall) \o <<"a">>}, f \in OrderBodyWords :
         input = b \o Paren(f) \o <<")">> =>
           ret = failWith([msg |-> "BadToken", actual |-> <<")">>])

\* parse has returned BadToken for the closing parenthesis that follows a
\* formula in which x is free
C15_Witness ==
  /\ Done
  /\ result.kind = "success"
  /\ OccursFree(result.tree, {}, syntax)
  /\ Len(tokens) = 1
  /\ ret.kind = "error"
  /\ ret.msg = "BadToken"
  /\ ret.actual = <<")">>

\* the backslash at position i of inp opens a control sequence: an even number
\* of backslashes stands directly before it
OpensCtrlSeq(inp, i) ==
  /\ inp[i] = "\\"
  /\ Cardinality({j \in 1..(i - 1) : \A k \in j..(i - 1) : inp[k] = "\\"}) % 2 = 0

\* the space at position i of inp is discarded: it does not directly follow a
\* backslash that opens a control sequence
DiscardedSpace(inp, i) ==
  /\ inp[i] = " "
  /\ ~(i > 1 /\ OpensCtrlSeq(inp, i - 1))

\* the characters of inp from position i on, the discarded spaces left out
RECURSIVE WithoutSpaces(_, _)
WithoutSpaces(inp, i) ==
  IF i > Len(inp) THEN <<>>
  ELSE (IF DiscardedSpace(inp, i) THEN <<>> ELSE <<inp[i]>>) \o WithoutSpaces(inp, i + 1)

\* the spellings of toks one after the other
RECURSIVE Spellings(_)
Spellings(toks) ==
  IF toks = <<>> THEN <<>> ELSE Head(toks).value \o Spellings(Tail(toks))

\* the tokenizer has run and the parser has not yet taken a token
Tokenized == pc \in {"blank", "parse"}

\* C16: the spellings of the tokens, one after the other, are the input without
\* the spaces that do not directly follow a backslash opening a control
\* sequence; no token is spelled as a lone space; a token spelled with more than
\* one character or with a backslash starts with the backslash of its control
\* sequence, and there is one such token for every opening backslash.
C16_Spellings ==
  Tokenized =>
    /\ Spellings(tokens) = WithoutSpaces(input, 1)
    /\ \A i \in 1..Len(tokens) :
         /\ tokens[i].value # <<" ">>
         /\ tokens[i].value # <<>>
         /\ (Len(tokens[i].value) > 1 \/ tokens[i].kind \in {"metavariable", "unrecognized"})
              => tokens[i].value[1] = "\\"
    /\ Cardinality({i \in 1..Len(tokens) : tokens[i].value[1] = "\\"})
         = Cardinality({i \in 1..Len(input) : OpensCtrlSeq(input, i)})

\* the tokenizer has kept the space after a backslash as a control symbol and
\* discarded the space after that
C16_Witness ==
  /\ Tokenized
  /\ input = <<"a", "\\", " ", " ", "a">>
  /\ Len(tokens) = 3
  /\ tokens[2].value = <<"\\", " ">>

\* the tokenizer has spelled a metavariable and a connective of the table each
\* with its backslash and discarded the space between them
C16_KindsWitness ==
  /\ Tokenized
  /\ input = Cw(s_phi) \o <<" ">> \o Cw(s_land)
  /\ Len(tokens) = 2
  /\ tokens[1].kind = "metavariable"
  /\ tokens[2].kind = "connective"

\* the opening parentheses less the closing ones among the first j tokens
Depth(toks, j) ==
  Cardinality({i \in 1..j : toks[i].value = <<"(">>})
  - Cardinality({i \in 1..j : toks[i].value = <<")">>})

\* the position of the parenthesis that closes the group toks starts with
ClosingOf(toks) ==
  LET open == IF toks[1].value = s_left THEN 2 ELSE 1 IN
  CHOOSE j \in (open + 1)..Len(toks) :
    /\ Depth(toks, j) = 0
    /\ \A i \in open..(j - 1) : Depth(toks, i) > 0

\* the attempt of parseBasicFormula on the buffer toks, which starts with a group
BacktrackAt(toks) ==
  LET attempt == tryParse(toks, "parensFormula") IN
  IF attempt.r.kind = "error"
  THEN /\ attempt.toks = toks
       /\ parseBasicFormula(toks) = parseInfixPred(toks)
  ELSE /\ attempt.toks = Suffix(toks, ClosingOf(toks) + 1)
       /\ parseBasicFormula(toks) = attempt

\* parseFormula has returned
Parsed == pc \notin {"tokenize", "blank", "parse"}

\* C17: when the attempt to parse a parenthesized group as a formula fails, the
\* term alternative starts from the very buffer the attempt started from; when
\* it succeeds the buffer is left just past the group's closing parenthesis and
\* its result is taken without the term alternative. This holds for every
\* buffer that starts with a group, nested attempts included, and parseFormula
\* returns what follows from it for the input.
C17_Backtrack ==
  Parsed =>
    /\ \A k \in 1..Len(InputTokens) :
         delimUpNext(Suffix(InputTokens, k), <<"(">>) =>
           BacktrackAt(Suffix(InputTokens, k))
    /\ delimUpNext(InputTokens, <<"(">>) =>
         LET attempt == tryParse(InputTokens, "parensFormula")
             basic == IF attempt.r.kind = "error" THEN parseInfixPred(InputTokens)
                      ELSE PR(attempt.r, Suffix(InputTokens, ClosingOf(InputTokens) + 1))
         IN PR(result, tokens) =
              IF basic.r.kind = "error" THEN basic
              ELSE parseFormulaLoop(basic.r.tree, basic.toks, 0)

\* the attempt on ((a+b))\cdot c=d failed after a nested attempt had failed, and
\* the term alternative read the two groups from the start
C17_Witness ==
  /\ Done
  /\ input = Groups("bare", <<"a", "+", "b">>, 2) \o Cs(s_cdot) \o <<"c", "=", "d">>
  /\ tryParse(InputTokens, "parensFormula").r.kind = "error"
  /\ Len(runParser("parensFormula", InputTokens).toks) < Len(InputTokens) - 5
  /\ ret.kind = "success"
  /\ ret.tree.k[2] = Node(<<Leaf(s_times),
                            Node(<<Leaf(s_plusLabel), Leaf(<<"a">>), Leaf(<<"b">>)>>),
                            Leaf(<<"c">>)>>)

\* the labels of the nullary connectives of syn
NullaryLabels(syn) ==
  {syn[key].label :
     key \in {k \in DOMAIN syn : syn[k].kind = "connective" /\ syn[k].style = "nullary"}}

\* the leaves of the tree the parser built that stand for variables: the entries
\* of a metavariable's list, and the leaves below a node's label that are not
\* nullary connectives
RECURSIVE VariableLeaves(_, _)
VariableLeaves(tree, syn) ==
  IF IsString(tree) THEN {}
  ELSE IF tree.k # <<>> /\ tree.k[1] = Leaf(s_metavar)
  THEN {tree.k[i].v : i \in 3..Len(tree.k)}
  ELSE UNION {IF IsString(tree.k[i])
              THEN {tree.k[i].v} \ NullaryLabels(syn)
              ELSE VariableLeaves(tree.k[i], syn) : i \in 2..Len(tree.k)}

\* C18: where a variable is read, a word that is not one lowercase letter is
\* rejected with BadToken naming it; every variable leaf of a tree that parsed
\* and every member of a set of the returned map is a lowercase letter with an
\* optional subscript of digits.
C18_Variables ==
  Done =>
    /\ \A pre \in {<<>>, Cs(s_neg)}, place \in VariablePlaces, w \in NonVariableWords :
         input = pre \o VariableInput(place, w) =>
           /\ ret.kind = "error"
           /\ ret.msg = "BadToken"
           /\ ret.actual = w
    /\ ParsedAll => \A v \in VariableLeaves(result.tree, syntax) : VarShape(v, Lower)
    /\ ret.kind = "success" =>
         \A i \in 1..Len(ret.allowedSubs) :
           \A v \in Range(ret.allowedSubs[i][2]) : VarShape(v, Lower)

\* the ordinary variables, letters s to z, among the variable leaves of tree
OrdinaryVariables(tree, syn) ==
  {v \in VariableLeaves(tree, syn) : VarShape(v, LowerSZ)}

\* C19: for every quantifier of the table, one whose label differs from its
\* spelling included, a formula Q v body whose only ordinary variable is v does
\* not fail with FreeVar.
C19_BoundByAnyQuantifier ==
  (/\ Done /\ ParsedAll
   /\ IsQuantification(result.tree, syntax)
   /\ OrdinaryVariables(result.tree.k[3], syntax) \subseteq {result.tree.k[2].v})
  => ~(ret.kind = "error" /\ ret.msg = "FreeVar")

\* the same for the quantifiers whose label is their spelling in the table
C19_BoundBySpelledQuantifier ==
  (/\ Done /\ ParsedAll
   /\ IsQuantification(result.tree, syntax)
   /\ Has(syntax, result.tree.k[1].v)
   /\ OrdinaryVariables(result.tree.k[3], syntax) \subseteq {result.tree.k[2].v})
  => ~(ret.kind = "error" /\ ret.msg = "FreeVar")

\* the tree of an argument that is not a bare infix term
ArgumentTree(arg) ==
  CASE arg.kind = "variable" -> Leaf(<<"a">>)
    [] arg.kind = "grouped" ->
         Node(<<Leaf(OperatorLabel(arg.op)), Leaf(<<"a">>), Leaf(<<"b">>)>>)
    [] arg.kind = "application" -> Node(<<Leaf(<<"F">>), Leaf(<<"b">>)>>)

ApplicationTree(args) ==
  Node(<<Leaf(IF Len(args) = 1 THEN <<"F">> ELSE <<"G">>)>>
       \o [i \in 1..Len(args) |-> ArgumentTree(args[i])])

\* the tree of the formula the application stands in
ApplicationRead(place, op, args) ==
  CASE place = "left" ->
         Node(<<Leaf(s_eqLabel), ApplicationTree(args), Leaf(<<"c">>)>>)
    [] place = "right" ->
         Node(<<Leaf(s_eqLabel), Leaf(<<"c">>), ApplicationTree(args)>>)
    [] place = "operand" ->
         Node(<<Leaf(s_eqLabel),
                Node(<<Leaf(OperatorLabel(op)), ApplicationTree(args), Leaf(<<"b">>)>>),
                Leaf(<<"c">>)>>)
    [] place = "predicate" -> Node(<<Leaf(<<"P">>), ApplicationTree(args)>>)

\* C20: an infix function written without parentheses inside the argument list
\* of a prefix function makes parse fail; inside a parenthesized argument it is
\* accepted, and after the closing parenthesis of the application it takes the
\* whole application as its left operand.
C20_PrefixArguments ==
  Done =>
    \A place \in ApplicationPlaces, op \in InfixOperators, args \in ArgumentLists :
      input = ApplicationInput(place, op, args) =>
        IF \E i \in 1..Len(args) : args[i].kind = "infix"
        THEN ret.kind = "error"
        ELSE /\ ret.kind = "success"
             /\ ret.tree = ApplicationRead(place, op, args)

\* parse has read \funcG((a+b),\funcF(b))\cdot b=c with the application as the
\* left operand of \cdot
C20_Witness ==
  /\ Done
  /\ input = ApplicationInput("operand", "times",
               <<[kind |-> "grouped", op |-> "plus"],
                 [kind |-> "application", op |-> "plus"]>>)
  /\ ret.kind = "success"
  /\ ret.tree.k[2].k[1] = Leaf(s_times)
  /\ ret.tree.k[2].k[2].k[1] = Leaf(<<"G">>)

\* parse has failed on \funcF(a+b)=c at the + inside the argument list
C20_FailureWitness ==
  /\ Done
  /\ input = ApplicationInput("left", "plus", <<[kind |-> "infix", op |-> "plus"]>>)
  /\ ret = failWith([msg |-> "BadToken", expected |-> <<")">>, actual |-> s_plus])

\* parseFormula run call by call returns what parseFormula returns and leaves
\* the buffer parseFormula leaves
ByCallsReturnsParseFormula ==
  (pc = "parsing" /\ stack = <<>>) =>
    PR(returned, tokens) = parseFormula(InputTokens, 0)

\* the parsers parseFormula calls, itself included
Parsers ==
  {"parseFormula", "parseBasicFormula", "parseInfixPred", "parseTerm",
   "parseBasicTerm", "parseVariable", "parseDelimiter", "parseList", "tryParse"}

\* the calls of parser fn that have not returned
CallsOpen(fn) == Cardinality({i \in 1..Len(stack) : stack[i].fn = fn})

\* the tokens the parsers have taken off the front of the buffer
TokensTaken == Len(InputTokens) - Len(tokens)

\* Every call of a parser made inside a call of the same parser has had a
\* token, at least, taken off the buffer before it.
CallsTakeTokens ==
  pc = "parsing" => \A fn \in Parsers : CallsOpen(fn) <= TokensTaken + 1

\* C21: parse terminates on every finite input: every run of parse, with
\* parseFormula run call by call, reaches the statement that returns, and
\* on the way no parser is called inside itself without a token more taken
\* off the buffer.
C21_Terminates == []CallsTakeTokens /\ <>Done

\* ((a+b))\cdot c=d has been parsed call by call: both groups were tried as
\* formulas, the buffer was put back twice, and parse has returned the equation
C21_Witness ==
  /\ Done
  /\ input = Groups("bare", <<"a", "+", "b">>, 2) \o Cs(s_cdot) \o <<"c", "=", "d">>
  /\ tryParse(InputTokens, "parensFormula").r.kind = "error"
  /\ tryParse(Tail(InputTokens), "parensFormula").r.kind = "error"
  /\ stack = <<>>
  /\ returned = result
  /\ tokens = <<>>
  /\ ret.kind = "success"

====
